---- MODULE Spec2Model ----
(***************************************************************************)
(* Clinic MCP server: the slot booking store (ClinicDB behind              *)
(* SQLiteClinicRepository and ClinicService) and the JWT request gate.     *)
(*                                                                         *)
(* Store.  Every repository call opens its own sqlite3 connection          *)
(* (SQLiteClinicRepository._db), runs one DML statement and commits.  The  *)
(* statement takes SQLite's database-wide write lock, which is held until  *)
(* the commit (or, after an exception, until the connection is closed by   *)
(* ClinicDB.__exit__).  A second writer waits for the lock (sqlite3's busy *)
(* handler); the wait is modelled as blocking.  Rows of a table are kept   *)
(* as a sequence: AUTOINCREMENT ids are the indices, rows are never        *)
(* deleted one by one.  SQL NULL is written 0.                             *)
(***************************************************************************)
EXTENDS Integers, Sequences, FiniteSets, TLC

\* ---------------------------------------------------------------- bounds
MaxUsers == 2
NSlots == 2
MaxBills == 2

NULL == 0

Clients == {"c1", "c2"}
UserIds == 1..(MaxUsers + 1)
SlotIds == 1..(NSlots + 1)
PayIds == 1..(MaxUsers + 1)
Amounts == {10, 25}
SSNs == {111, 222}
MembershipInputs == {"gold", "silver", "platinum"}
CardBrandInputs == {"visa", "Visa"}

VARIABLES db, txn, writer, call, gate, server, authn

vars == <<db, txn, writer, call, gate, server, authn>>

\* ----------------------------------------------------------------- store
\* add_doctors / add_slots: the seeded slots, all unoccupied.
SeedSlots ==
    [i \in 1..NSlots |->
        [dr_id |-> 1, date |-> i, start_time |-> 9, user_id |-> NULL]]

\* add_doctors: the seeded doctors.
SeedDoctors == <<[dr_name |-> "Dr. Alice Green", specialty |-> "family"]>>

\* create_tables on a new file: every table exists and is empty.
EmptyDb ==
    [users |-> <<>>, doctors |-> <<>>, payment_methods |-> <<>>,
     slots |-> <<>>, bills |-> <<>>]

\* A seeding that does not look whether there are doctors.
seed_if_empty_Always(d) ==
    [d EXCEPT !.doctors = d.doctors \o SeedDoctors, !.slots = d.slots \o SeedSlots]

\* seed_if_empty: doctors and slots are inserted only when there is no doctor.
seed_if_empty(d) ==
    IF Len(d.doctors) > 0 THEN d
    ELSE [d EXCEPT !.doctors = SeedDoctors, !.slots = d.slots \o SeedSlots]

\* init_schema(seed=True): create_tables (IF NOT EXISTS), then seed_if_empty.
init_schema(d) == seed_if_empty(d)

\* A reset that clears the occupants of some slots only.
reset_schema_Partial(d) ==
    [init_schema(EmptyDb) EXCEPT
        !.slots = [i \in DOMAIN SeedSlots |->
                      IF i = 1 /\ i \in DOMAIN d.slots /\ d.slots[i].user_id # NULL
                      THEN [SeedSlots[i] EXCEPT !.user_id = d.slots[i].user_id + 1]
                      ELSE SeedSlots[i]]]

\* reset_schema(seed=True): drop every table, create them, seed.
reset_schema(d) == init_schema(EmptyDb)

NoResult == [kind |-> "none", value |-> 0, msg |-> <<>>]
Ok(v) == [kind |-> "ok", value |-> v, msg |-> <<>>]
Raised(k, m) == [kind |-> k, value |-> 0, msg |-> m]

\* The text of the ValueError raised by ClinicDB.add_appointment.
SlotNotAvailable(slot_id) ==
    <<"Slot ", slot_id, " is not available (already booked or does not exist).">>

\* The claim's WHERE clause without "AND user_id IS NULL".
ClaimWhere_AnyOccupant(slots, slot_id) == slot_id \in DOMAIN slots

\* WHERE slot_id = ? AND user_id IS NULL
ClaimWhere(slots, slot_id) ==
    /\ slot_id \in DOMAIN slots
    /\ slots[slot_id].user_id = NULL

\* A release that matches no row.
ReleaseWhere_Never(slots, slot_id) == FALSE

\* WHERE slot_id = ?
ReleaseWhere(slots, slot_id) == slot_id \in DOMAIN slots

\* The user reference of a connection on which foreign_keys is off.
FkUser_Off(d, user_id) == TRUE

\* FOREIGN KEY (user_id) REFERENCES users(user_id), with foreign_keys = ON
FkUser(d, user_id) == user_id = NULL \/ user_id \in DOMAIN d.users
FkPay(d, pay_id) == pay_id \in DOMAIN d.payment_methods
FkSlot(d, slot_id) == slot_id = NULL \/ slot_id \in DOMAIN d.slots

\* The outcome of one statement on database d: the exception it raises
\* ("" for none), the database as the open transaction sees it, the cursor's
\* rowcount and lastrowid.
Outcome(exc, d, rowcount, lastrowid) ==
    [exc |-> exc, d |-> d, rowcount |-> rowcount, lastrowid |-> lastrowid]

\* A claim that looks the slot up first and refuses an unknown slot id.
add_appointment_stmt_lookup(d, user_id, slot_id) ==
    IF slot_id \notin DOMAIN d.slots THEN Outcome("NotFoundError", d, 0, 0)
    ELSE IF d.slots[slot_id].user_id # NULL THEN Outcome("", d, 0, 0)
    ELSE IF user_id = NULL \/ user_id \in DOMAIN d.users
         THEN Outcome("", [d EXCEPT !.slots[slot_id].user_id = user_id], 1, 0)
         ELSE Outcome("IntegrityError", d, 0, 0)

\* UPDATE slots SET user_id = ? WHERE slot_id = ? AND user_id IS NULL
add_appointment_stmt(d, user_id, slot_id) ==
    IF ClaimWhere(d.slots, slot_id)
    THEN IF FkUser(d, user_id)
         THEN Outcome("", [d EXCEPT !.slots[slot_id].user_id = user_id], 1, 0)
         ELSE Outcome("IntegrityError", d, 0, 0)
    ELSE Outcome("", d, 0, 0)

\* A release that refuses an unknown slot id.
remove_appointment_stmt_strict(d, slot_id) ==
    IF slot_id \in DOMAIN d.slots
    THEN Outcome("", [d EXCEPT !.slots[slot_id].user_id = NULL], 1, 0)
    ELSE Outcome("ValueError", d, 0, 0)

\* A release whose UPDATE has no WHERE clause.
remove_appointment_stmt_NoWhere(d, slot_id) ==
    Outcome("", [d EXCEPT !.slots = [i \in DOMAIN d.slots |->
                                        [d.slots[i] EXCEPT !.user_id = NULL]]],
            Len(d.slots), 0)

\* A release that takes the slot's bills off the ledger.
remove_appointment_stmt_Refund(d, slot_id) ==
    IF slot_id \in DOMAIN d.slots
    THEN Outcome("", [d EXCEPT !.slots[slot_id].user_id = NULL,
                               !.bills = SelectSeq(@, LAMBDA b : b.slot_id # slot_id)],
                 1, 0)
    ELSE Outcome("", d, 0, 0)

\* UPDATE slots SET user_id = NULL WHERE slot_id = ?
remove_appointment_stmt(d, slot_id) ==
    IF ReleaseWhere(d.slots, slot_id)
    THEN Outcome("", [d EXCEPT !.slots[slot_id].user_id = NULL], 1, 0)
    ELSE Outcome("", d, 0, 0)

\* A bill that drops its slot reference.
bill_user_stmt_NoSlot(d, pay_id, amount, slot_id) ==
    IF pay_id \in DOMAIN d.payment_methods
    THEN Outcome("",
                 [d EXCEPT !.bills = Append(@, [pay_id |-> pay_id, slot_id |-> NULL,
                                                amount |-> amount])],
                 1, Len(d.bills) + 1)
    ELSE Outcome("IntegrityError", d, 0, 0)

\* INSERT INTO bills (pay_id, [slot_id,] date, amount)
bill_user_stmt(d, pay_id, amount, slot_id) ==
    IF FkPay(d, pay_id) /\ FkSlot(d, slot_id)
    THEN Outcome("",
                 [d EXCEPT !.bills = Append(@, [pay_id |-> pay_id,
                                                slot_id |-> slot_id,
                                                amount |-> amount])],
                 1, Len(d.bills) + 1)
    ELSE Outcome("IntegrityError", d, 0, 0)

\* INSERT INTO users (...)
add_user_stmt(d, ssn, membership_type) ==
    Outcome("",
            [d EXCEPT !.users = Append(@, [social_security_number |-> ssn,
                                           membership_type |-> membership_type])],
            1, Len(d.users) + 1)

\* INSERT INTO payment_methods (user_id, ...)
add_payment_method_stmt(d, user_id) ==
    IF FkUser(d, user_id)
    THEN Outcome("",
                 [d EXCEPT !.payment_methods = Append(@, [user_id |-> user_id])],
                 1, Len(d.payment_methods) + 1)
    ELSE Outcome("IntegrityError", d, 0, 0)

\* ------------------------------------------------------------- clients
\* One record per client: the tool invocation it is running (op), the
\* repository call that invocation has reached (repo), the position in that
\* call (pc), the arguments and locals, and the result once it is done.
\* snap and trail record what the client has seen: the occupant of the slot
\* when add_appointment was invoked (-1: no such slot), and the client's last
\* completed calls.
\* query holds the arguments of a search and rows what a SELECT returned.
\* tool is the MCP tool the invocation came through ("" when the service was
\* called directly) and card_brand the brand it was given.
NoQuery ==
    [specialty |-> "", doctor_name |-> <<>>, start_date |-> <<>>, end_date |-> <<>>,
     today |-> 0]

Idle ==
    [op |-> "idle", repo |-> "", pc |-> "idle", user_id |-> 0, pay_id |-> 0,
     slot_id |-> 0, amount |-> 0, ssn |-> 0, membership_type |-> "",
     rowcount |-> 0, booked |-> 0, snap |-> 0, res |-> NoResult, trail |-> <<>>,
     query |-> NoQuery, rows |-> <<>>, tool |-> "", card_brand |-> ""]

Occupant(slots, slot_id) ==
    IF slot_id \in DOMAIN slots THEN slots[slot_id].user_id ELSE -1

InFlight(ops) == Cardinality({q \in Clients : call[q].op \in ops /\ call[q].pc # "done"})

Invoke(p, c) ==
    /\ call[p].pc = "idle"
    /\ call' = [call EXCEPT ![p] = [c EXCEPT !.pc = "exec", !.trail = call[p].trail]]
    /\ UNCHANGED <<db, txn, writer, gate, server, authn>>

\* SQLiteClinicRepository.add_appointment(user_id, slot_id)
call_add_appointment(p) ==
    \E u \in UserIds, s \in SlotIds :
        Invoke(p, [Idle EXCEPT !.op = "add_appointment", !.repo = "add_appointment",
                               !.user_id = u, !.slot_id = s,
                               !.snap = Occupant(db.slots, s)])

\* SQLiteClinicRepository.remove_appointment(slot_id), ClinicService.cancel_appointment
call_remove_appointment(p) ==
    \E s \in SlotIds :
        Invoke(p, [Idle EXCEPT !.op = "remove_appointment",
                               !.repo = "remove_appointment", !.slot_id = s])

\* ClinicService.schedule_appointment(user_id, pay_id, slot_id, payment_amount)
call_schedule_appointment(p) ==
    /\ Len(db.bills) < MaxBills
    /\ \E u \in UserIds, pay \in PayIds, s \in SlotIds, a \in Amounts :
        Invoke(p, [Idle EXCEPT !.op = "schedule_appointment",
                               !.repo = "add_appointment", !.user_id = u,
                               !.pay_id = pay, !.slot_id = s, !.amount = a])

\* ClinicService.register_user(ssn, ..., amount, membership_type)
call_register_user(p) ==
    /\ Len(db.users) + InFlight({"register_user"}) < MaxUsers
    /\ Len(db.bills) + InFlight({"schedule_appointment", "register_user"}) < MaxBills
    /\ \E n \in SSNs, m \in MembershipInputs, a \in Amounts, b \in CardBrandInputs :
        Invoke(p, [Idle EXCEPT !.op = "register_user", !.repo = "add_user",
                               !.ssn = n, !.membership_type = m, !.amount = a,
                               !.card_brand = b])

\* admin_reset_db -> SQLiteClinicRepository.reset_database()
call_reset_database(p) ==
    Invoke(p, [Idle EXCEPT !.op = "reset_database", !.repo = "reset_schema"])

\* ------------------------------------------------------ repository calls
\* The statement the client's current repository call executes.
Statement(d, c) ==
    CASE c.repo = "add_appointment" -> add_appointment_stmt(d, c.user_id, c.slot_id)
      [] c.repo = "remove_appointment" -> remove_appointment_stmt(d, c.slot_id)
      [] c.repo = "bill_user" -> bill_user_stmt(d, c.pay_id, c.amount, c.booked)
      [] c.repo = "add_user" -> add_user_stmt(d, c.ssn, c.membership_type)
      [] c.repo = "add_payment_method" -> add_payment_method_stmt(d, c.user_id)

\* ClinicDB.add_user: if membership_type not in ["regular", "gold", "silver"]
ValidMembership(m) == m \in {"regular", "gold", "silver"}

Finish(c, r) == [c EXCEPT !.pc = "done", !.res = r]

\* cursor.execute(...): the statement runs inside an implicit transaction of
\* the call's own connection and takes the write lock.  An exception leaves
\* the transaction open until the connection is closed.
Execute(p) ==
    /\ call[p].pc = "exec"
    /\ call[p].repo \in {"add_appointment", "remove_appointment", "bill_user",
                          "add_user", "add_payment_method"}
    /\ call[p].repo = "add_user" => ValidMembership(call[p].membership_type)
    /\ writer = "none"
    /\ LET o == Statement(db, call[p]) IN
        /\ writer' = p
        /\ txn' = o.d
        /\ call' = [call EXCEPT ![p] =
                [@ EXCEPT !.pc = IF o.exc = "" THEN "commit" ELSE "close",
                          !.rowcount = o.rowcount,
                          !.res = IF o.exc = "" THEN NoResult
                                  ELSE Raised(o.exc, <<"FOREIGN KEY constraint failed">>),
                          !.user_id = IF call[p].repo = "add_user" THEN o.lastrowid ELSE @,
                          !.pay_id = IF call[p].repo = "add_payment_method"
                                     THEN o.lastrowid ELSE @]]
    /\ UNCHANGED <<db, gate, server, authn>>

\* ClinicDB.add_user raises ValueError before any statement;
\* SQLiteClinicRepository.add_user turns it into ValidationError.
add_user_invalid(p) ==
    /\ call[p].pc = "exec"
    /\ call[p].repo = "add_user"
    /\ ~ValidMembership(call[p].membership_type)
    /\ call' = [call EXCEPT ![p] = Finish(@, Raised("ValidationError",
                    <<"Invalid membership_type. Choose from 'regular', 'gold', 'silver'.">>))]
    /\ UNCHANGED <<db, txn, writer, gate, server, authn>>

\* A schedule_appointment that bills whatever the claim's rowcount, and looks
\* at the rowcount afterwards.
AfterCommit_BillFirst(c) ==
    CASE c.repo = "add_appointment" ->
            IF c.op = "schedule_appointment"
            THEN [c EXCEPT !.booked = c.slot_id, !.repo = "bill_user", !.pc = "exec"]
            ELSE IF c.rowcount # 1
                 THEN Finish(c, Raised("ConflictError", SlotNotAvailable(c.slot_id)))
                 ELSE Finish(c, Ok(c.slot_id))
      [] c.repo = "remove_appointment" -> Finish(c, Ok(0))
      [] c.repo = "add_user" -> [c EXCEPT !.repo = "add_payment_method", !.pc = "exec"]
      [] c.repo = "add_payment_method" ->
            IF c.op = "add_payment_method" THEN Finish(c, Ok(c.pay_id))
            ELSE [c EXCEPT !.repo = "bill_user", !.pc = "exec"]
      [] c.repo = "bill_user" ->
            IF c.op = "schedule_appointment"
            THEN IF Occupant(db.slots, c.slot_id) # c.user_id
                 THEN Finish(c, Raised("ConflictError", SlotNotAvailable(c.slot_id)))
                 ELSE Finish(c, Ok(c.booked))
            ELSE Finish(c, Ok(c.user_id))

\* A schedule_appointment that, on a conflict, tries the slot before the
\* requested one.
AfterCommit_Retry(c) ==
    CASE c.repo = "add_appointment" ->
            IF c.rowcount # 1
            THEN IF c.op = "schedule_appointment" /\ c.slot_id > 1
                 THEN [c EXCEPT !.slot_id = c.slot_id - 1, !.pc = "exec"]
                 ELSE Finish(c, Raised("ConflictError", SlotNotAvailable(c.slot_id)))
            ELSE IF c.op = "schedule_appointment"
                 THEN [c EXCEPT !.booked = c.slot_id, !.repo = "bill_user", !.pc = "exec"]
                 ELSE Finish(c, Ok(c.slot_id))
      [] c.repo = "remove_appointment" -> Finish(c, Ok(0))
      [] c.repo = "add_user" -> [c EXCEPT !.repo = "add_payment_method", !.pc = "exec"]
      [] c.repo = "add_payment_method" ->
            IF c.op = "add_payment_method" THEN Finish(c, Ok(c.pay_id))
            ELSE [c EXCEPT !.repo = "bill_user", !.pc = "exec"]
      [] c.repo = "bill_user" ->
            IF c.op = "schedule_appointment" THEN Finish(c, Ok(c.booked))
            ELSE Finish(c, Ok(c.user_id))

\* What the caller of the repository call does once the call has committed.
\* add_appointment: rowcount != 1 raises ValueError, which
\* SQLiteClinicRepository.add_appointment turns into ConflictError.
\* schedule_appointment: booked = add_appointment(...); bill_user(pay_id,
\* amount, slot_id=booked); return booked.  register_user: add_user;
\* add_payment_method; bill_user; return the ids.  add_payment_method: return
\* the new payment method's id.
AfterCommit(c) ==
    CASE c.repo = "add_appointment" ->
            IF c.rowcount # 1
            THEN Finish(c, Raised("ConflictError", SlotNotAvailable(c.slot_id)))
            ELSE IF c.op = "schedule_appointment"
                 THEN [c EXCEPT !.booked = c.slot_id, !.repo = "bill_user", !.pc = "exec"]
                 ELSE Finish(c, Ok(c.slot_id))
      [] c.repo = "remove_appointment" -> Finish(c, Ok(0))
      [] c.repo = "add_user" -> [c EXCEPT !.repo = "add_payment_method", !.pc = "exec"]
      [] c.repo = "add_payment_method" ->
            IF c.op = "add_payment_method" THEN Finish(c, Ok(c.pay_id))
            ELSE [c EXCEPT !.repo = "bill_user", !.pc = "exec"]
      [] c.repo = "bill_user" ->
            IF c.op = "schedule_appointment" THEN Finish(c, Ok(c.booked))
            ELSE Finish(c, Ok(c.user_id))

\* conn.commit(): the transaction becomes the database, the lock is released,
\* and the call returns to its caller.
Commit(p) ==
    /\ call[p].pc = "commit"
    /\ writer = p
    /\ db' = txn
    /\ txn' = EmptyDb
    /\ writer' = "none"
    /\ call' = [call EXCEPT ![p] = AfterCommit(@)]
    /\ UNCHANGED <<gate, server, authn>>

\* A close that compensates: it gives the slot back when billing failed.
Close_Compensating(p) ==
    /\ call[p].pc = "close"
    /\ writer = p
    /\ txn' = EmptyDb
    /\ writer' = "none"
    /\ call' = [call EXCEPT ![p].pc = "done"]
    /\ db' = IF call[p].repo = "bill_user" /\ call[p].booked \in DOMAIN db.slots
             THEN [db EXCEPT !.slots[call[p].booked].user_id = NULL]
             ELSE db
    /\ UNCHANGED <<gate, server, authn>>

\* ClinicDB.__exit__ -> close() after an exception: the open transaction is
\* rolled back, the lock released, and the exception reaches the caller.
Close(p) ==
    /\ call[p].pc = "close"
    /\ writer = p
    /\ txn' = EmptyDb
    /\ writer' = "none"
    /\ call' = [call EXCEPT ![p].pc = "done"]
    /\ UNCHANGED <<db, gate, server, authn>>

\* SQLiteClinicRepository.reset_database: ClinicDB.reset_schema(seed=True).
reset_database(p) ==
    /\ call[p].pc = "exec"
    /\ call[p].repo = "reset_schema"
    /\ writer = "none"
    /\ db' = reset_schema(db)
    /\ call' = [call EXCEPT ![p] = Finish(@, Ok(0))]
    /\ UNCHANGED <<txn, writer, gate, server, authn>>

\* get_service() in a process of its own, hard_reset_database's bootstrap:
\* SQLiteClinicRepository.init_schema()
call_init_schema(p) ==
    Invoke(p, [Idle EXCEPT !.op = "init_schema", !.repo = "init_schema"])

\* SQLiteClinicRepository.init_schema: ClinicDB.init_schema(seed=True).
SQLiteClinicRepository_init_schema(p) ==
    /\ call[p].pc = "exec"
    /\ call[p].repo = "init_schema"
    /\ writer = "none"
    /\ db' = init_schema(db)
    /\ call' = [call EXCEPT ![p] = Finish(@, Ok(0))]
    /\ UNCHANGED <<txn, writer, gate, server, authn>>

\* The invocation's result has been delivered; the client may call again.
Return(p) ==
    /\ call[p].pc = "done"
    /\ call' = [call EXCEPT ![p] = [Idle EXCEPT !.trail = call[p].trail]]
    /\ UNCHANGED <<db, txn, writer, gate, server, authn>>

\* The last two calls the client has completed, newest last.
Seen(c) == [op |-> c.op, user_id |-> c.user_id, slot_id |-> c.slot_id, kind |-> c.res.kind]

ReturnTracked(p) ==
    /\ call[p].pc = "done"
    /\ call' = [call EXCEPT ![p] =
            [Idle EXCEPT !.trail = IF Len(call[p].trail) < 2
                                   THEN Append(call[p].trail, Seen(call[p]))
                                   ELSE <<call[p].trail[2], Seen(call[p])>>]]
    /\ UNCHANGED <<db, txn, writer, gate, server, authn>>

\* ----------------------------------------------------------------- tools
\* class MembershipType(StrEnum), class CardBrand(str, Enum)
MembershipType == {"regular", "silver", "gold"}
CardBrand == {"visa", "mastercard", "amex", "discover", "diners", "jcb", "unionpay", "other"}

\* The tool's parameters are annotated with the enums: an argument that is
\* no value of the enum fails the validation of the arguments, and the
\* tool's body does not run.
ValidMembershipType(m) == m \in MembershipType

\* A card brand parameter that takes any text.
ValidCardBrand_Any(b) == TRUE

ValidCardBrand(b) == b \in CardBrand

InvalidArguments == Raised("ValidationError", <<"Input validation error">>)

\* The invocation of a tool: rejected at once when an argument is invalid,
\* handed to the service otherwise.
call_tool(p, c, valid) ==
    /\ call[p].pc = "idle"
    /\ call' = [call EXCEPT ![p] =
            IF valid THEN [c EXCEPT !.pc = "exec", !.trail = call[p].trail]
            ELSE Finish([c EXCEPT !.repo = "", !.trail = call[p].trail],
                        InvalidArguments)]
    /\ UNCHANGED <<db, txn, writer, gate, server, authn>>

\* @mcp.tool() add_user(..., card_brand: CardBrand, ..., membership_type:
\* MembershipType) -> svc.register_user(..., card_brand.value, ...,
\* membership_type)
add_user(p) ==
    /\ Len(db.users) + InFlight({"register_user"}) < MaxUsers
    /\ Len(db.payment_methods) + InFlight({"register_user", "add_payment_method"}) < MaxUsers
    /\ Len(db.bills) + InFlight({"schedule_appointment", "register_user"}) < MaxBills
    /\ \E n \in SSNs, m \in MembershipInputs, a \in Amounts, b \in CardBrandInputs :
        call_tool(p, [Idle EXCEPT !.tool = "add_user", !.op = "register_user",
                                 !.repo = "add_user", !.ssn = n,
                                 !.membership_type = m, !.amount = a,
                                 !.card_brand = b],
                 ValidCardBrand(b) /\ ValidMembershipType(m))

\* @mcp.tool() add_payment_method(user_id, card_last_4, card_brand: CardBrand,
\* ...) -> svc.add_payment_method(user_id, card_last_4, card_brand.value, ...)
add_payment_method(p) ==
    /\ Len(db.payment_methods) + InFlight({"register_user", "add_payment_method"}) < MaxUsers
    /\ \E u \in UserIds, b \in CardBrandInputs :
        call_tool(p, [Idle EXCEPT !.tool = "add_payment_method",
                                 !.op = "add_payment_method",
                                 !.repo = "add_payment_method", !.user_id = u,
                                 !.card_brand = b],
                 ValidCardBrand(b))

\* --------------------------------------------------------------- queries
\* Texts are sequences of characters where the code looks inside them (LIKE,
\* len(d), d[4], date(?)).  An optional argument is a sequence of length 0
\* (None) or 1.  A date stored in slots.date is the number date() gives its
\* ISO text; a start time is the number its "HH:MM" text reads as, so that
\* the order of the numbers is the order of the texts.
Text(s) ==
    CASE s = "Dr. Alice Green" ->
            <<"D", "r", ".", " ", "A", "l", "i", "c", "e", " ", "G", "r", "e", "e", "n">>
      [] s = "Dr. Bob Taylor" ->
            <<"D", "r", ".", " ", "B", "o", "b", " ", "T", "a", "y", "l", "o", "r">>
      [] s = "Dr. Fiona White" ->
            <<"D", "r", ".", " ", "F", "i", "o", "n", "a", " ", "W", "h", "i", "t", "e">>
      [] s = "GREEN" -> <<"G", "R", "E", "E", "N">>
      [] s = "Al_ce" -> <<"A", "l", "_", "c", "e">>
      [] s = "2030-01-07" -> <<"2", "0", "3", "0", "-", "0", "1", "-", "0", "7">>
      [] s = "2030-01-09" -> <<"2", "0", "3", "0", "-", "0", "1", "-", "0", "9">>
      [] s = "2030-01-14" -> <<"2", "0", "3", "0", "-", "0", "1", "-", "1", "4">>
      [] s = "2030-13-45" -> <<"2", "0", "3", "0", "-", "1", "3", "-", "4", "5">>
      [] s = "2030/01/09" -> <<"2", "0", "3", "0", "/", "0", "1", "/", "0", "9">>
      [] s = "" -> <<>>

Digit(c) ==
    CASE c = "0" -> 0 [] c = "1" -> 1 [] c = "2" -> 2 [] c = "3" -> 3 [] c = "4" -> 4
      [] c = "5" -> 5 [] c = "6" -> 6 [] c = "7" -> 7 [] c = "8" -> 8 [] c = "9" -> 9
      [] OTHER -> -1

\* SQLite date(t) for a text t: the day of a YYYY-MM-DD text as a number
\* that grows with the date, NULL for a text that is no date.  (Days past
\* the end of their month, which SQLite rolls over, are not among the
\* inputs.)
date(t) ==
    IF Len(t) # 10 \/ t[5] # "-" \/ t[8] # "-"
        \/ \E i \in {1, 2, 3, 4, 6, 7, 9, 10} : Digit(t[i]) < 0
    THEN NULL
    ELSE LET y == 1000 * Digit(t[1]) + 100 * Digit(t[2]) + 10 * Digit(t[3]) + Digit(t[4])
             m == 10 * Digit(t[6]) + Digit(t[7])
             d == 10 * Digit(t[9]) + Digit(t[10])
         IN  IF m \in 1..12 /\ d \in 1..31 THEN (y * 12 + (m - 1)) * 31 + d ELSE NULL

\* SQLite compares LIKE case-insensitively for ASCII letters.
LowerChar(c) ==
    CASE c = "A" -> "a" [] c = "B" -> "b" [] c = "C" -> "c" [] c = "D" -> "d"
      [] c = "E" -> "e" [] c = "F" -> "f" [] c = "G" -> "g" [] c = "H" -> "h"
      [] c = "I" -> "i" [] c = "J" -> "j" [] c = "K" -> "k" [] c = "L" -> "l"
      [] c = "M" -> "m" [] c = "N" -> "n" [] c = "O" -> "o" [] c = "P" -> "p"
      [] c = "Q" -> "q" [] c = "R" -> "r" [] c = "S" -> "s" [] c = "T" -> "t"
      [] c = "U" -> "u" [] c = "V" -> "v" [] c = "W" -> "w" [] c = "X" -> "x"
      [] c = "Y" -> "y" [] c = "Z" -> "z" [] OTHER -> c

\* text LIKE pattern: % matches any run of characters, _ any one character.
RECURSIVE LIKE(_, _)
LIKE(text, pattern) ==
    IF pattern = <<>> THEN text = <<>>
    ELSE IF Head(pattern) = "%"
    THEN \E k \in 0..Len(text) : LIKE(SubSeq(text, k + 1, Len(text)), Tail(pattern))
    ELSE /\ text # <<>>
         /\ Head(pattern) = "_" \/ LowerChar(Head(pattern)) = LowerChar(Head(text))
         /\ LIKE(Tail(text), Tail(pattern))

\* ... LIMIT 10
LIMIT == 10

\* add_doctors and add_slots on a larger scale than SeedDoctors and
\* SeedSlots: three doctors of two specialties; slots are inserted doctor by
\* doctor, for each doctor weekday by weekday (Mondays 2030-01-07 and
\* 2030-01-14, then Wednesday 2030-01-09), and within a day by start time.
add_doctors ==
    <<[dr_name |-> "Dr. Alice Green", specialty |-> "family"],
      [dr_name |-> "Dr. Bob Taylor", specialty |-> "family"],
      [dr_name |-> "Dr. Fiona White", specialty |-> "pediatrics"]>>

add_slots ==
    LET days == <<"2030-01-07", "2030-01-14", "2030-01-09">>
        times == <<<<900, 930>>, <<900, 920>>, <<900>>>>
        of(dr_id) ==
            [i \in 1..(3 * Len(times[dr_id])) |->
                [dr_id |-> dr_id,
                 date |-> date(Text(days[((i - 1) \div Len(times[dr_id])) + 1])),
                 start_time |-> times[dr_id][((i - 1) % Len(times[dr_id])) + 1],
                 user_id |-> NULL]]
    IN  of(1) \o of(2) \o of(3)

\* The row a SELECT over slots JOIN doctors returns for slot i.
AppointmentSlot(d, i) ==
    [slot_id |-> i, dr_name |-> d.doctors[d.slots[i].dr_id].dr_name,
     specialty |-> d.doctors[d.slots[i].dr_id].specialty,
     date |-> d.slots[i].date, start_time |-> d.slots[i].start_time]

\* if doctor_name: / if start_date: / if end_date:
Given(arg) == arg # <<>> /\ arg[1] # <<>>

\* A search whose WHERE clause leaves out "AND s.user_id IS NULL".
SearchWhere_Occupied(d, q, i) ==
    LET s == d.slots[i]
        doc == d.doctors[s.dr_id]
    IN  /\ doc.specialty = q.specialty
        /\ s.date >= q.today
        /\ Given(q.doctor_name)
            => LIKE(Text(doc.dr_name), <<"%">> \o q.doctor_name[1] \o <<"%">>)
        /\ Given(q.start_date)
            => date(q.start_date[1]) # NULL /\ s.date >= date(q.start_date[1])
        /\ Given(q.end_date)
            => date(q.end_date[1]) # NULL /\ s.date <= date(q.end_date[1])

\* WHERE d.specialty = ? AND s.user_id IS NULL AND date(s.date) >= date('now')
\* [AND d.dr_name LIKE ?] [AND date(s.date) >= date(?)] [AND date(s.date) <= date(?)]
\* A comparison with NULL is not true.
SearchWhere(d, q, i) ==
    LET s == d.slots[i]
        doc == d.doctors[s.dr_id]
    IN  /\ doc.specialty = q.specialty
        /\ s.user_id = NULL
        /\ s.date >= q.today
        /\ Given(q.doctor_name)
            => LIKE(Text(doc.dr_name), <<"%">> \o q.doctor_name[1] \o <<"%">>)
        /\ Given(q.start_date)
            => date(q.start_date[1]) # NULL /\ s.date >= date(q.start_date[1])
        /\ Given(q.end_date)
            => date(q.end_date[1]) # NULL /\ s.date <= date(q.end_date[1])

\* ORDER BY s.date ASC, s.start_time ASC
NotAfter(slots, i, j) ==
    \/ slots[i].date < slots[j].date
    \/ slots[i].date = slots[j].date /\ slots[i].start_time <= slots[j].start_time

\* The orders ORDER BY may give the rows S: rows equal in date and start
\* time come in any order.
RECURSIVE OrderBy(_, _)
OrderBy(slots, S) ==
    IF S = {} THEN {<<>>}
    ELSE UNION {{<<m>> \o rest : rest \in OrderBy(slots, S \ {m})} :
                    m \in {i \in S : \A j \in S : NotAfter(slots, i, j)}}

\* LIMIT 10
Limit(rows) == IF Len(rows) > LIMIT THEN SubSeq(rows, 1, LIMIT) ELSE rows

\* ClinicDB.search_available_appointments: the lists fetchall() may return.
search_available_appointments_stmt(d, q) ==
    {Limit([k \in DOMAIN ids |-> AppointmentSlot(d, ids[k])]) :
        ids \in OrderBy(d.slots, {i \in DOMAIN d.slots : SearchWhere(d, q, i)})}

\* A lookup that finds unoccupied slots only.
get_appointment_slot_stmt_Free(d, slot_id) ==
    IF slot_id \in DOMAIN d.slots /\ d.slots[slot_id].user_id = NULL
    THEN <<AppointmentSlot(d, slot_id)>> ELSE <<>>

\* ClinicDB.get_appointment_slot: SELECT ... WHERE s.slot_id = ?; fetchone().
get_appointment_slot_stmt(d, slot_id) ==
    IF slot_id \in DOMAIN d.slots THEN <<AppointmentSlot(d, slot_id)>> ELSE <<>>

\* _validate_date(d, name): None passes; a text passes when it has ten
\* characters with "-" in the fifth and eighth place.
_validate_date(dt) ==
    dt = <<>> \/ ~(Len(dt[1]) # 10 \/ dt[1][5] # "-" \/ dt[1][8] # "-")

SearchSpecialties == {"family", "pediatrics"}
DoctorNames == {<<>>, <<Text("GREEN")>>, <<Text("Al_ce")>>}
StartDates == {<<>>, <<Text("2030-01-09")>>, <<Text("2030-13-45")>>, <<Text("2030/01/09")>>}
EndDates == {<<>>, <<Text("2030-01-09")>>, <<Text("")>>}
Todays == {date(Text("2030-01-07")), date(Text("2030-01-09"))}

\* ClinicService.search_appointments(specialty, doctor_name, start_date,
\* end_date) on the day today: _validate_date raises ValidationError before
\* the repository is called.
call_search_appointments(p) ==
    /\ call[p].pc = "idle"
    /\ \E specialty \in SearchSpecialties, doctor_name \in DoctorNames,
          start_date \in StartDates, end_date \in EndDates, today \in Todays :
        LET c == [Idle EXCEPT !.op = "search_appointments",
                              !.repo = "search_available_appointments",
                              !.query = [specialty |-> specialty,
                                         doctor_name |-> doctor_name,
                                         start_date |-> start_date,
                                         end_date |-> end_date, today |-> today],
                              !.trail = call[p].trail]
        IN  call' = [call EXCEPT ![p] =
                IF ~_validate_date(start_date)
                THEN Finish(c, Raised("ValidationError", <<"start_date must be YYYY-MM-DD.">>))
                ELSE IF ~_validate_date(end_date)
                THEN Finish(c, Raised("ValidationError", <<"end_date must be YYYY-MM-DD.">>))
                ELSE [c EXCEPT !.pc = "exec"]]
    /\ UNCHANGED <<db, txn, writer, gate, server, authn>>

\* SQLiteClinicRepository.search_available_appointments: one SELECT on a
\* connection of its own, which sees the committed database.
search_available_appointments(p) ==
    /\ call[p].pc = "exec"
    /\ call[p].repo = "search_available_appointments"
    /\ \E rows \in search_available_appointments_stmt(db, call[p].query) :
        call' = [call EXCEPT ![p] = [Finish(@, Ok(Len(rows))) EXCEPT !.rows = rows]]
    /\ UNCHANGED <<db, txn, writer, gate, server, authn>>

\* ClinicService.get_slot(slot_id)
call_get_slot(p) ==
    \E s \in SlotIds \cup {Len(db.slots) + 1} :
        Invoke(p, [Idle EXCEPT !.op = "get_slot", !.repo = "get_appointment_slot",
                               !.slot_id = s])

\* SQLiteClinicRepository.get_appointment_slot: the row, or None.
get_appointment_slot(p) ==
    /\ call[p].pc = "exec"
    /\ call[p].repo = "get_appointment_slot"
    /\ LET rows == get_appointment_slot_stmt(db, call[p].slot_id)
       IN  call' = [call EXCEPT ![p] = [Finish(@, Ok(Len(rows))) EXCEPT !.rows = rows]]
    /\ UNCHANGED <<db, txn, writer, gate, server, authn>>

\* ------------------------------------------------------ user appointments
\* A listing in the order of the slot ids.
get_user_appointments_stmt_ById(d, user_id) ==
    LET S == {i \in DOMAIN d.slots : d.slots[i].user_id = user_id}
        RECURSIVE up(_)
        up(T) == IF T = {} THEN <<>>
                 ELSE LET m == CHOOSE i \in T : \A j \in T : i <= j
                      IN  <<AppointmentSlot(d, m)>> \o up(T \ {m})
    IN  {up(S)}

\* ClinicDB.get_user_appointments: SELECT ... FROM slots s JOIN doctors d
\* ... WHERE s.user_id = ? ORDER BY s.date ASC, s.start_time ASC; the lists
\* fetchall() may return.
get_user_appointments_stmt(d, user_id) ==
    {[k \in DOMAIN ids |-> AppointmentSlot(d, ids[k])] :
        ids \in OrderBy(d.slots, {i \in DOMAIN d.slots : d.slots[i].user_id = user_id})}

\* ClinicService.get_user_appointments(user_id)
call_get_user_appointments(p) ==
    \E u \in UserIds :
        Invoke(p, [Idle EXCEPT !.op = "get_user_appointments",
                               !.repo = "get_user_appointments", !.user_id = u])

\* SQLiteClinicRepository.get_user_appointments: one SELECT on a connection
\* of its own, which sees the committed database.
get_user_appointments(p) ==
    /\ call[p].pc = "exec"
    /\ call[p].repo = "get_user_appointments"
    /\ \E rows \in get_user_appointments_stmt(db, call[p].user_id) :
        call' = [call EXCEPT ![p] = [Finish(@, Ok(Len(rows))) EXCEPT !.rows = rows]]
    /\ UNCHANGED <<db, txn, writer, gate, server, authn>>

\* ------------------------------------------------------------ user reads
\* A read-back that reports the default tier.
get_user_stmt_Default(d, user_id) ==
    IF user_id \in DOMAIN d.users
    THEN <<[user_id |-> ToString(user_id),
            ssn |-> d.users[user_id].social_security_number,
            membership_type |-> "regular"]>>
    ELSE <<>>

\* SELECT u.user_id, u.social_security_number, ..., u.membership_type FROM
\* users u WHERE u.user_id = ?; fetchone(), built into
\* User(user_id=str(r[0]), ssn=int(r[1]), ..., membership_type=MembershipType(r[8]))
get_user_stmt(d, user_id) ==
    IF user_id \in DOMAIN d.users
    THEN <<[user_id |-> ToString(user_id),
            ssn |-> d.users[user_id].social_security_number,
            membership_type |-> d.users[user_id].membership_type]>>
    ELSE <<>>

\* SELECT user_id FROM users WHERE social_security_number = ?; fetchone():
\* the table is scanned in rowid order, so the first matching row is the
\* one with the lowest user_id.
get_user_id_stmt(d, ssn) ==
    LET S == {u \in DOMAIN d.users : d.users[u].social_security_number = ssn}
    IN  IF S = {} THEN <<>> ELSE <<CHOOSE u \in S : \A v \in S : u <= v>>

SsnInputs == SSNs \cup {333}

\* ClinicService.get_user(user_id)
call_get_user(p) ==
    \E u \in UserIds :
        Invoke(p, [Idle EXCEPT !.op = "get_user", !.repo = "get_user", !.user_id = u])

\* ClinicService.get_user_id(social_security_number)
call_get_user_id(p) ==
    \E n \in SsnInputs :
        Invoke(p, [Idle EXCEPT !.op = "get_user_id", !.repo = "get_user_id", !.ssn = n])

\* SQLiteClinicRepository.get_user: the User, or ValueError("No user found
\* with id: ...") turned into NotFoundError.
get_user(p) ==
    /\ call[p].pc = "exec"
    /\ call[p].repo = "get_user"
    /\ LET rows == get_user_stmt(db, call[p].user_id)
       IN  call' = [call EXCEPT ![p] =
                IF rows = <<>>
                THEN Finish(@, Raised("NotFoundError", <<"No user found with id">>))
                ELSE [Finish(@, Ok(0)) EXCEPT !.rows = rows]]
    /\ UNCHANGED <<db, txn, writer, gate, server, authn>>

\* SQLiteClinicRepository.get_user_id: the id, or ValueError("No user found
\* with social security number: ...") turned into NotFoundError.
get_user_id(p) ==
    /\ call[p].pc = "exec"
    /\ call[p].repo = "get_user_id"
    /\ LET rows == get_user_id_stmt(db, call[p].ssn)
       IN  call' = [call EXCEPT ![p] =
                IF rows = <<>>
                THEN Finish(@, Raised("NotFoundError",
                                      <<"No user found with social security number">>))
                ELSE Finish(@, Ok(rows[1]))]
    /\ UNCHANGED <<db, txn, writer, gate, server, authn>>

\* ---------------------------------------------------------------- the gate
\* JwtAuthMiddleware wraps the ASGI application.  A header is a name and a
\* value, both byte strings: utf8 says whether both decode; a decoded value
\* is the text before its first space (scheme), whether there is a space
\* (sp), and the text after it (rest: ws says that white space surrounds the
\* credentials).  A token is the sequence of its dot-separated segments.
\* A claim a payload may lack is a sequence of length 0 or 1.
MaxHeaders == 2

\* verify(token, leeway_seconds: int = 30)
leeway_seconds == 30

None == "None"
Times == {100, 130, 131}
Paths == {"/mcp", "/health", ""}
ScopeTypes == {"http", "websocket"}
Methods == {"GET", "POST"}

\* A header or payload segment is the base64url of a JSON object
\* ("object"), of JSON that is no object ("array"), or of no JSON at all, or
\* no base64url ("garbage").  A claim that a payload may lack is a sequence
\* of length 0 or 1; a numeric claim is a JSON integer or some other JSON
\* value (a number with a fraction, a string) that stands for v.
JsonInt(v) == [int |-> TRUE, v |-> v]
JsonOther(v) == [int |-> FALSE, v |-> v]

Header(alg) == [form |-> "object", alg |-> alg]
Payload(sub, role, iat, exp, nbf, aud, iss) ==
    [form |-> "object", sub |-> sub, role |-> role, iat |-> iat,
     exp |-> exp, nbf |-> nbf, aud |-> aud, iss |-> iss]
NotJson == [form |-> "garbage", alg |-> ""]
NotObject == [form |-> "array", alg |-> ""]

\* A signature segment that is not what _sign returns for any input: ascii
\* says whether all its characters are ASCII.
OtherSignature(ascii) == [key |-> "", header |-> NotJson, payload |-> NotJson, ascii |-> ascii]

\* JwtHS256._sign: HMAC-SHA256 of the signing input under the secret, as
\* base64url text, written as what it is the keyed hash of.
_sign(secret, header_b64, payload_b64) ==
    [key |-> secret, header |-> header_b64, payload |-> payload_b64, ascii |-> TRUE]

JwtHS256(secret, audience, issuer) ==
    [secret |-> secret, audience |-> audience, issuer |-> issuer]

\* JwtHS256.generate_demo_token(valid_seconds), the clock reading now.
generate_demo_token(jwt, now, valid_seconds) ==
    LET header == Header("HS256")
        payload == Payload(<<"demo-user">>, <<"demo">>, <<JsonInt(now)>>,
                           <<JsonInt(now + valid_seconds)>>, <<>>,
                           IF jwt.audience \notin {None, ""} THEN <<jwt.audience>> ELSE <<>>,
                           IF jwt.issuer \notin {None, ""} THEN <<jwt.issuer>> ELSE <<>>)
    IN  <<header, payload, _sign(jwt.secret, header, payload)>>

Verified(payload) == [raised |-> "", msg |-> "", payload |-> <<payload>>]
Rejected(exc, msg) == [raised |-> exc, msg |-> msg, payload |-> <<>>]

\* isinstance(payload.get(name), int)
IsInt(claim) == Len(claim) = 1 /\ claim[1].int

\* JwtHS256.verify(token, leeway_seconds), the clock reading now.
verify(jwt, token, now, leeway) ==
    LET parts == token IN
    IF Len(parts) # 3 THEN Rejected("ValueError", "Invalid JWT format")
    ELSE IF parts[1].form = "garbage" \/ parts[2].form = "garbage"
    THEN Rejected("JSONDecodeError", "Expecting value")
    ELSE LET header == parts[1]
             payload == parts[2]
             signature_b64 == parts[3]
             expected == _sign(jwt.secret, parts[1], parts[2])
         IN  IF header.form # "object"
             THEN Rejected("AttributeError", "object has no attribute 'get'")
             ELSE IF header.alg # "HS256"
             THEN Rejected("ValueError", "Only HS256 supported in this demo")
             ELSE IF ~signature_b64.ascii
             THEN Rejected("TypeError", "comparing strings with non-ASCII characters is not supported")
             ELSE IF expected # signature_b64
             THEN Rejected("ValueError", "Invalid JWT signature")
             ELSE IF payload.form # "object"
             THEN Rejected("AttributeError", "object has no attribute 'get'")
             ELSE IF IsInt(payload.exp) /\ now > payload.exp[1].v + leeway
             THEN Rejected("ValueError", "JWT expired")
             ELSE IF IsInt(payload.nbf) /\ now < payload.nbf[1].v - leeway
             THEN Rejected("ValueError", "JWT not active yet")
             ELSE IF jwt.audience # None /\ payload.aud # <<jwt.audience>>
             THEN Rejected("ValueError", "JWT audience mismatch")
             ELSE IF jwt.issuer # None /\ payload.iss # <<jwt.issuer>>
             THEN Rejected("ValueError", "JWT issuer mismatch")
             ELSE Verified(payload)

\* The authenticators of the deployments considered, and the tokens sent.
Authenticators ==
    {JwtHS256("k1", None, None), JwtHS256("k1", "clinic", None)}

Tokens ==
    LET demo == generate_demo_token(JwtHS256("k1", None, None), 70, 30)
    IN  { demo,
          generate_demo_token(JwtHS256("k1", "clinic", None), 70, 30),
          generate_demo_token(JwtHS256("k2", None, None), 70, 30),
          <<Header("none"), demo[2], demo[3]>>,
          <<demo[1], demo[2], OtherSignature(FALSE)>>,
          <<demo[1], demo[2]>>,
          <<NotJson>> }

\* str.lower() on the names and schemes that occur.
Lower(s) ==
    CASE s = "Authorization" -> "authorization"
      [] s = "X-Note" -> "x-note"
      [] s = "Bearer" -> "bearer"
      [] s = "BEARER" -> "bearer"
      [] s = "Basic" -> "basic"
      [] OTHER -> s

\* str.strip() on the text after the first space.
strip(rest) == rest.token

Credentials(scheme, sp, ws, token) ==
    [scheme |-> scheme, sp |-> sp, rest |-> [ws |-> ws, token |-> token]]

HeaderField(name, utf8, value) == [name |-> name, utf8 |-> utf8, value |-> value]

\* The default of headers.get("authorization", ""): the empty string.
EmptyValue == Credentials("", FALSE, FALSE, <<NotJson>>)

HeaderFields ==
    {HeaderField("Authorization", TRUE, Credentials("Bearer", TRUE, FALSE, t)) : t \in Tokens}
    \cup { HeaderField("authorization", TRUE, Credentials("bearer", TRUE, TRUE, t)) : t \in Tokens }
    \cup { HeaderField("Authorization", TRUE, Credentials("Bearer", FALSE, FALSE, <<NotJson>>)),
           HeaderField("Authorization", TRUE, Credentials("Basic", TRUE, FALSE, <<NotJson>>)),
           HeaderField("Authorization", TRUE, EmptyValue),
           HeaderField("X-Note", TRUE, Credentials("Bearer", TRUE, FALSE, <<NotJson>>)),
           HeaderField("X-Note", FALSE, EmptyValue) }

Scopes ==
    [type : ScopeTypes, path : Paths, method : Methods,
     headers : UNION {[1..n -> HeaderFields] : n \in 0..MaxHeaders}]

\* {k.decode().lower(): v.decode() for k, v in headers}.get(name, ""): the
\* value of the last field of that name.
get(headers, name) ==
    LET at == {i \in DOMAIN headers : Lower(headers[i].name) = name}
    IN  IF at = {} THEN EmptyValue
        ELSE headers[CHOOSE i \in at : \A j \in at : j <= i].value

\* What a call of the middleware has done when it is over: the messages it
\* sent, the scopes it handed to the wrapped application, and the exception
\* it raised, if any.
Forwarded(scope) == [sent |-> <<>>, app |-> <<scope>>, raised |-> ""]
Unauthorized(body) ==
    [sent |-> <<[type |-> "http.response.start", status |-> 401, body |-> ""],
                [type |-> "http.response.body", status |-> 0, body |-> body]>>,
     app |-> <<>>, raised |-> ""]
Raises(exc) == [sent |-> <<>>, app |-> <<>>, raised |-> exc]
NotCalled == [sent |-> <<>>, app |-> <<>>, raised |-> ""]

\* JwtAuthMiddleware.__call__(scope, receive, send)
Dispatch(mw, scope, now) ==
    IF scope.type # "http" THEN Forwarded(scope)
    ELSE IF (~mw.required) \/ scope.path \in mw.allowlist_paths THEN Forwarded(scope)
    ELSE IF \E i \in DOMAIN scope.headers : ~scope.headers[i].utf8
    THEN Raises("UnicodeDecodeError")
    ELSE LET auth == get(scope.headers, "authorization") IN
         IF ~(Lower(auth.scheme) = "bearer" /\ auth.sp)
         THEN Unauthorized("{\"error\":\"missing bearer token\"}")
         ELSE LET token == strip(auth.rest) IN
              IF verify(mw.jwt, token, now, leeway_seconds).raised # ""
              THEN Unauthorized("{\"error\":\"invalid token\"}")
              ELSE Forwarded(scope)

\* JwtAuthMiddleware.__init__(app, jwt, required, allowlist_paths)
JwtAuthMiddleware(jwt, required, allowlist_paths) ==
    [jwt |-> jwt, required |-> required, allowlist_paths |-> allowlist_paths]

DefaultMiddleware == JwtAuthMiddleware(JwtHS256("k1", None, None), TRUE, {"/health"})

NoScope == [type |-> "", path |-> "", method |-> "", headers |-> <<>>]

\* The gate after construction: no request yet.
Constructed(mw) ==
    [mw |-> mw, pc |-> "idle", scope |-> NoScope, now |-> 0, out |-> NotCalled]

\* The server accepts a request and builds its scope.
Receive ==
    /\ gate.pc = "idle"
    /\ \E scope \in Scopes : gate' = [gate EXCEPT !.pc = "received", !.scope = scope]
    /\ UNCHANGED <<db, txn, writer, call, server, authn>>

\* The server calls the middleware with the scope; the middleware reads the
\* clock when it verifies a token.
JwtAuthMiddleware_call ==
    /\ gate.pc = "received"
    /\ \E now \in Times :
        gate' = [gate EXCEPT !.pc = "done", !.now = now,
                             !.out = Dispatch(gate.mw, gate.scope, now)]
    /\ UNCHANGED <<db, txn, writer, call, server, authn>>

\* The request is over; the server is ready for the next one.
Finished ==
    /\ gate.pc = "done"
    /\ gate' = Constructed(gate.mw)
    /\ UNCHANGED <<db, txn, writer, call, server, authn>>


\* -------------------------------------------------------------- the server
\* The environment the server is started in: a variable is None when it is
\* not set.  JWT_ALLOWLIST_PATHS is written as the sequence of the texts
\* between its commas.
Transports == {"sse", "streamable-http"}
RequiredTexts == {None, "true", " ON ", "false", ""}
AllowlistTexts ==
    {None, <<"">>, <<"/health">>, <<"/metrics">>, <<"/health", " /mcp ">>}
AudienceTexts == {None, "", "clinic"}
SecretTexts == {None, "k1"}

Environments ==
    [JWT_REQUIRED : RequiredTexts, JWT_ALLOWLIST_PATHS : AllowlistTexts,
     JWT_AUDIENCE : AudienceTexts, JWT_SECRET : SecretTexts]

\* v.strip().lower() and p.strip() on the texts that occur.
StripLower(v) ==
    CASE v = " ON " -> "on"
      [] v = " /mcp " -> "/mcp"
      [] OTHER -> v

\* settings._env_bool(name, default), v the value of the variable
_env_bool(v, default) ==
    IF v = None THEN default
    ELSE StripLower(v) \in {"1", "true", "yes", "y", "on"}

\* ServerSettings.load(transport, host, port)
load(transport, env) ==
    LET allowlist == IF env.JWT_ALLOWLIST_PATHS = None THEN <<"/health">>
                     ELSE env.JWT_ALLOWLIST_PATHS
        allowlist_paths == {StripLower(allowlist[i]) : i \in DOMAIN allowlist} \ {""}
        jwt_required_default == transport \in {"streamable-http"}
    IN  [transport |-> transport,
         jwt_required |-> _env_bool(env.JWT_REQUIRED, jwt_required_default),
         jwt_secret |-> IF env.JWT_SECRET = None THEN "dev-secret-change-me"
                        ELSE env.JWT_SECRET,
         jwt_audience |-> IF env.JWT_AUDIENCE \in {None, ""} THEN None
                          ELSE env.JWT_AUDIENCE,
         jwt_issuer |-> None,
         jwt_allowlist_paths |-> allowlist_paths]

\* McpRunner._wrap_with_health_and_jwt(settings, base_asgi): the health
\* application around the mounted one, and the middleware around both when
\* settings.jwt_required.
_wrap_with_health_and_jwt(settings) ==
    [settings |-> settings,
     jwt |-> IF settings.jwt_required
             THEN <<JwtAuthMiddleware(JwtHS256(settings.jwt_secret, settings.jwt_audience,
                                               settings.jwt_issuer),
                                      TRUE, settings.jwt_allowlist_paths)>>
             ELSE <<>>]

\* str.upper() on the methods that occur.
Upper(m) == IF m = "get" THEN "GET" ELSE m

\* What a call of the whole ASGI application has done when it is over: the
\* messages sent to the caller, the scopes handed to the mounted (FastMCP)
\* application, the exception raised.
Answered(sent) == [sent |-> sent, mounted |-> <<>>, raised |-> ""]
Mounted(scope) == [sent |-> <<>>, mounted |-> <<scope>>, raised |-> ""]

HealthPayload(settings) ==
    [status |-> "ok", transport |-> settings.transport,
     jwt_required |-> settings.jwt_required,
     jwt_allowlist_paths |-> settings.jwt_allowlist_paths]

\* HealthMountApp.__call__(scope, receive, send)
HealthMountApp_call(settings, scope) ==
    IF scope.type # "http" THEN Mounted(scope)
    ELSE IF scope.path = "/health" /\ Upper(scope.method) = "GET"
    THEN Answered(<<[type |-> "http.response.start", status |-> 200, body |-> <<>>],
                    [type |-> "http.response.body", status |-> 0,
                     body |-> <<HealthPayload(settings)>>]>>)
    ELSE Mounted(scope)

\* The application uvicorn runs, called with one scope.
App_call(app, scope, now) ==
    LET through == IF app.jwt # <<>> THEN Dispatch(app.jwt[1], scope, now)
                   ELSE Forwarded(scope)
    IN  IF through.app = <<>>
        THEN [sent |-> through.sent, mounted |-> <<>>, raised |-> through.raised]
        ELSE HealthMountApp_call(app.settings, through.app[1])

\* The requests sent to the server.
ServerHeaders ==
    LET demo == generate_demo_token(JwtHS256("k1", None, None), 70, 30)
    IN  { <<>>,
          <<HeaderField("Authorization", TRUE, Credentials("Bearer", TRUE, FALSE, demo))>>,
          <<HeaderField("Authorization", TRUE,
                        Credentials("Bearer", TRUE, FALSE, <<NotJson>>))>>,
          <<HeaderField("X-Note", FALSE, EmptyValue)>> }

ServerScopes ==
    [type : ScopeTypes, path : {"/mcp", "/health"}, method : Methods,
     headers : ServerHeaders]

NoOutcome == [sent |-> <<>>, mounted |-> <<>>, raised |-> ""]
NoRequest == [scope |-> NoScope, out |-> NoOutcome]

NoEnvironment ==
    [JWT_REQUIRED |-> None, JWT_ALLOWLIST_PATHS |-> None, JWT_AUDIENCE |-> None,
     JWT_SECRET |-> None]

\* The server process: the environment it was started in, its application,
\* the request in hand and what the caller of the request before it got.
NotStarted ==
    [pc |-> "down", env |-> NoEnvironment,
     app |-> _wrap_with_health_and_jwt(load("stdio", NoEnvironment)),
     scope |-> NoScope, now |-> 0, out |-> NoOutcome, last |-> NoRequest]

\* McpRunner.run(settings) for an HTTP transport
run(transport, env) ==
    [NotStarted EXCEPT !.pc = "idle", !.env = env,
                       !.app = _wrap_with_health_and_jwt(load(transport, env))]

ServerReceive ==
    /\ server.pc = "idle"
    /\ \E scope \in ServerScopes :
        server' = [server EXCEPT !.pc = "received", !.scope = scope, !.out = NoOutcome]
    /\ UNCHANGED <<db, txn, writer, call, gate, authn>>

ServerCall ==
    /\ server.pc = "received"
    /\ \E now \in Times :
        server' = [server EXCEPT !.pc = "done", !.now = now,
                                 !.out = App_call(server.app, server.scope, now)]
    /\ UNCHANGED <<db, txn, writer, call, gate, authn>>

ServerFinished ==
    /\ server.pc = "done"
    /\ server' = [server EXCEPT !.pc = "idle", !.scope = NoScope, !.now = 0,
                                !.out = NoOutcome,
                                !.last = [scope |-> server.scope, out |-> server.out]]
    /\ UNCHANGED <<db, txn, writer, call, gate, authn>>

\* ------------------------------------------------------ the authenticator
\* JwtHS256 on its own: an authenticator, the clock, and the token that is
\* issued, handed round and verified.  origin tells how the token came
\* about: who signed it, when, for how long, and which segment was changed
\* since.
NoAuthenticator == [pc |-> "none"]

Secrets == {"k1", "k2"}
Configurations ==
    {JwtHS256(k, a, i) : k \in Secrets, a \in {None, "", "clinic"}, i \in {None, "me"}}
Verifiers == {c \in Configurations : c.secret = "k1"}
Instants == {100, 101, 130, 131, 161}
ValidSeconds == {-1, 0, 30}
Leeways == {0, leeway_seconds}

HeaderSegments == {Header("HS256"), Header("none"), NotJson, NotObject}
PayloadSegments ==
    {Payload(<<>>, <<>>, <<>>, exp, nbf, aud, <<>>) :
        exp \in {<<>>, <<JsonInt(100)>>, <<JsonOther(100)>>},
        nbf \in {<<>>, <<JsonInt(131)>>, <<JsonOther(131)>>},
        aud \in {<<>>, <<"clinic">>, <<"other">>}}
    \cup {NotJson, NotObject}

NoToken == <<>>
NoOrigin == [kind |-> "", by |-> JwtHS256("", None, None), at |-> 0,
             valid_seconds |-> 0, changed |-> ""]
NoVerdict == Rejected("", "")
NoCall == [token |-> NoToken, now |-> 0, leeway |-> 0, res |-> NoVerdict]

\* An authenticator has been constructed; the clock reads 100.
Authenticator(jwt) ==
    [pc |-> "ready", jwt |-> jwt, now |-> 100, token |-> NoToken, origin |-> NoOrigin,
     leeway |-> 0, res |-> NoVerdict, prev |-> NoCall]

\* by.generate_demo_token(valid_seconds)
Issue ==
    /\ authn.pc = "ready"
    /\ \E by \in Configurations, valid_seconds \in ValidSeconds :
        authn' = [authn EXCEPT
                    !.pc = "token",
                    !.token = generate_demo_token(by, authn.now, valid_seconds),
                    !.origin = [kind |-> "issued", by |-> by, at |-> authn.now,
                                valid_seconds |-> valid_seconds, changed |-> ""]]
    /\ UNCHANGED <<db, txn, writer, call, gate, server>>

\* A holder of a secret signs a header and a payload of its own making.
Sign ==
    /\ authn.pc = "ready"
    /\ \E key \in Secrets, header \in HeaderSegments, payload \in PayloadSegments :
        authn' = [authn EXCEPT
                    !.pc = "token",
                    !.token = <<header, payload, _sign(key, header, payload)>>,
                    !.origin = [kind |-> "signed", by |-> JwtHS256(key, None, None),
                                at |-> authn.now, valid_seconds |-> 0, changed |-> ""]]
    /\ UNCHANGED <<db, txn, writer, call, gate, server>>

\* Somebody changes the token on its way: characters of one segment, or the
\* number of segments.
Tamper ==
    /\ authn.pc = "token"
    /\ authn.origin.changed = ""
    /\ \/ \E ascii \in BOOLEAN :
            authn' = [authn EXCEPT !.token[3] = OtherSignature(ascii),
                                   !.origin.changed = "signature"]
       \/ \E header \in HeaderSegments \ {authn.token[1]} :
            authn' = [authn EXCEPT !.token[1] = header, !.origin.changed = "header"]
       \/ \E payload \in {NotJson, Payload(<<"admin">>, <<>>, <<>>, <<>>, <<>>, <<>>, <<>>)}
                             \ {authn.token[2]} :
            authn' = [authn EXCEPT !.token[2] = payload, !.origin.changed = "payload"]
       \/ authn' = [authn EXCEPT !.token = SubSeq(authn.token, 1, 2),
                                 !.origin.changed = "segments"]
    /\ UNCHANGED <<db, txn, writer, call, gate, server>>

\* Time passes.
Tick ==
    /\ authn.pc = "token"
    /\ \E later \in Instants : later > authn.now /\ authn' = [authn EXCEPT !.now = later]
    /\ UNCHANGED <<db, txn, writer, call, gate, server>>

\* A verify with a used-token list: a token that an earlier call accepted
\* is refused.
Verify_Revoking ==
    /\ authn.pc = "token"
    /\ \E leeway \in Leeways :
        authn' = [authn EXCEPT !.pc = "verified", !.leeway = leeway,
                               !.res = IF authn.prev.token = authn.token
                                          /\ authn.prev.res.raised = ""
                                       THEN Rejected("ValueError", "JWT revoked")
                                       ELSE verify(authn.jwt, authn.token, authn.now, leeway)]
    /\ UNCHANGED <<db, txn, writer, call, gate, server>>

\* authn.jwt.verify(token, leeway_seconds)
Verify ==
    /\ authn.pc = "token"
    /\ \E leeway \in Leeways :
        authn' = [authn EXCEPT !.pc = "verified", !.leeway = leeway,
                               !.res = verify(authn.jwt, authn.token, authn.now, leeway)]
    /\ UNCHANGED <<db, txn, writer, call, gate, server>>

\* The call is over and the caller still holds the token: prev is the
\* call that has just returned.
Reverify ==
    /\ authn.pc = "verified"
    /\ authn' = [authn EXCEPT
                    !.pc = "token", !.leeway = 0, !.res = NoVerdict,
                    !.prev = [token |-> authn.token, now |-> authn.now,
                              leeway |-> authn.leeway, res |-> authn.res]]
    /\ UNCHANGED <<db, txn, writer, call, gate, server>>

\* JwtAuthMiddleware.__call__: self.jwt.verify(token), for a request that
\* carries the token; the result goes to the middleware.
JwtAuthMiddleware_verify ==
    /\ authn.pc = "token"
    /\ authn.prev.token # authn.token \/ authn.prev.now # authn.now
            \/ authn.prev.leeway # leeway_seconds
    /\ authn' = [authn EXCEPT
                    !.prev = [token |-> authn.token, now |-> authn.now,
                              leeway |-> leeway_seconds,
                              res |-> verify(authn.jwt, authn.token, authn.now,
                                             leeway_seconds)]]
    /\ UNCHANGED <<db, txn, writer, call, gate, server>>

\* The caller is done with the token.
Discard ==
    /\ authn.pc = "verified"
    /\ authn' = Authenticator(authn.jwt)
    /\ UNCHANGED <<db, txn, writer, call, gate, server>>


\* ------------------------------------------------------- specifications
\* The database after get_service() (repo.init_schema() on a new file) and k
\* completed register_user(111, ..., amount = 10, membership_type = gold) calls.
RECURSIVE Registered(_)
Registered(k) ==
    IF k = 0 THEN init_schema(EmptyDb)
    ELSE LET d1 == add_user_stmt(Registered(k - 1), 111, "gold").d
             d2 == add_payment_method_stmt(d1, Len(d1.users)).d
         IN bill_user_stmt(d2, Len(d2.payment_methods), 10, NULL).d

InitFresh ==
    /\ db = init_schema(EmptyDb)
    /\ txn = EmptyDb
    /\ writer = "none"
    /\ call = [p \in Clients |-> Idle]
    /\ gate = Constructed(DefaultMiddleware)
    /\ server = NotStarted
    /\ authn = NoAuthenticator

Init ==
    /\ \E k \in 0..MaxUsers : db = Registered(k)
    /\ txn = EmptyDb
    /\ writer = "none"
    /\ call = [p \in Clients |-> Idle]
    /\ gate = Constructed(DefaultMiddleware)
    /\ server = NotStarted
    /\ authn = NoAuthenticator

\* Registrations only, from the new database.
NextRegister ==
    \E p \in Clients :
        \/ call_register_user(p)
        \/ add_user_invalid(p)
        \/ Execute(p)
        \/ Commit(p)
        \/ Close(p)
        \/ Return(p)

SpecRegister == InitFresh /\ [][NextRegister]_vars

\* One client adding users and payment methods through the tools, the other
\* registering users by calling the service.
NextTools ==
    \/ add_user("c1")
    \/ add_payment_method("c1")
    \/ call_register_user("c2")
    \/ \E p \in Clients :
        \/ add_user_invalid(p)
        \/ Execute(p)
        \/ Commit(p)
        \/ Close(p)
        \/ Return(p)

SpecTools == Init /\ [][NextTools]_vars

\* One client registering users, the other reading users back and
\* resetting the database.
NextUsers ==
    \/ call_register_user("c1")
    \/ call_get_user("c2")
    \/ call_get_user_id("c2")
    \/ call_reset_database("c2")
    \/ \E p \in Clients :
        \/ add_user_invalid(p)
        \/ get_user(p)
        \/ get_user_id(p)
        \/ reset_database(p)
        \/ Execute(p)
        \/ Commit(p)
        \/ Close(p)
        \/ Return(p)

SpecUsers == Init /\ [][NextUsers]_vars

\* Registrations from the new database, and look-ups by national ID.  No
\* statement of a registration fails here, so no connection is closed on an
\* exception.
NextIdentity ==
    \/ call_register_user("c1")
    \/ call_get_user_id("c2")
    \/ \E p \in Clients :
        \/ add_user_invalid(p)
        \/ get_user_id(p)
        \/ Execute(p)
        \/ Commit(p)
        \/ Return(p)

SpecIdentity == InitFresh /\ [][NextIdentity]_vars

\* The slot store: claims, releases and resets by concurrent clients.
Next ==
    \E p \in Clients :
        \/ call_add_appointment(p)
        \/ call_remove_appointment(p)
        \/ call_reset_database(p)
        \/ reset_database(p)
        \/ Execute(p)
        \/ Commit(p)
        \/ Close(p)
        \/ Return(p)

Spec == Init /\ [][Next]_vars

\* Claims only: nothing but add_appointment calls touch the slots.
NextRace ==
    \E p \in Clients :
        \/ call_add_appointment(p)
        \/ Execute(p)
        \/ Commit(p)
        \/ Close(p)
        \/ Return(p)

SpecRace == Init /\ [][NextRace]_vars

\* One client calling the repository, one call after the other.
NextSeq ==
    \/ call_add_appointment("c1")
    \/ call_remove_appointment("c1")
    \/ Execute("c1")
    \/ Commit("c1")
    \/ Close("c1")
    \/ ReturnTracked("c1")

SpecSeq == Init /\ [][NextSeq]_vars

\* The scheduling workflow, with cancellations and resets running beside it;
\* every appointment is charged the higher amount.
NextSchedule ==
    \/ /\ call_schedule_appointment("c1")
       /\ call'["c1"].amount = 25
    \/ call_add_appointment("c2")
    \/ call_remove_appointment("c2")
    \/ call_reset_database("c2")
    \/ \E p \in Clients :
        \/ reset_database(p)
        \/ Execute(p)
        \/ Commit(p)
        \/ Close(p)
        \/ Return(p)

SpecSchedule == Init /\ [][NextSchedule]_vars

\* A new database file: the tables are created and seeded by the first
\* init_schema; more init_schema calls follow, between registrations, claims
\* and releases.
InitBootstrap ==
    /\ db = EmptyDb
    /\ txn = EmptyDb
    /\ writer = "none"
    /\ call = [p \in Clients |-> Idle]
    /\ gate = Constructed(DefaultMiddleware)
    /\ server = NotStarted
    /\ authn = NoAuthenticator

\* Registrations pay the lower amount with a card of a valid brand.
NextBootstrap ==
    \/ /\ Len(db.doctors) > 0
       /\ \/ /\ call_register_user("c1")
             /\ call'["c1"].amount = 10
             /\ call'["c1"].card_brand = "visa"
          \/ call_add_appointment("c1")
          \/ call_remove_appointment("c1")
    \/ \E p \in Clients :
        \/ call_init_schema(p)
        \/ SQLiteClinicRepository_init_schema(p)
        \/ add_user_invalid(p)
        \/ Execute(p)
        \/ Commit(p)
        \/ Close(p)
        \/ Return(p)

SpecBootstrap == InitBootstrap /\ [][NextBootstrap]_vars

\* Concurrent schedule_appointment calls and nothing else: no release, no
\* reset.  The second caller books for the lowest amount, for a registered
\* user and with a payment method on file.
NextBilling ==
    \/ call_schedule_appointment("c1")
    \/ /\ call_schedule_appointment("c2")
       /\ call'["c2"].amount = 10
       /\ call'["c2"].pay_id \in DOMAIN db.payment_methods
       /\ call'["c2"].user_id \in DOMAIN db.users
    \/ \E p \in Clients :
        \/ Execute(p)
        \/ Commit(p)
        \/ Close(p)
        \/ Return(p)

SpecBilling == Init /\ [][NextBilling]_vars

\* One client schedules while the other registers users; no release, no
\* reset.
NextOwnership ==
    \/ /\ call_schedule_appointment("c1")
       /\ call'["c1"].amount = 25
    \/ /\ call_register_user("c2")
       /\ call'["c2"].amount = 10
       /\ call'["c2"].membership_type = "gold"
       /\ call'["c2"].card_brand = "visa"
    \/ \E p \in Clients :
        \/ Execute(p)
        \/ Commit(p)
        \/ Close(p)
        \/ Return(p)

SpecOwnership == Init /\ [][NextOwnership]_vars

\* The operations that write a reference to a user, a payment method or a
\* slot: one client schedules (a claim, then a bill) and adds payment
\* methods, the other resets the database.
NextIntegrity ==
    \/ call_schedule_appointment("c1")
    \/ add_payment_method("c1")
    \/ call_reset_database("c2")
    \/ \E p \in Clients :
        \/ reset_database(p)
        \/ Execute(p)
        \/ Commit(p)
        \/ Close(p)
        \/ Return(p)

SpecIntegrity == Init /\ [][NextIntegrity]_vars

\* The seeded database with one registered user, searched by one client
\* while the other claims and releases slots.
InitSearch ==
    /\ db = [Registered(1) EXCEPT !.doctors = add_doctors, !.slots = add_slots]
    /\ txn = EmptyDb
    /\ writer = "none"
    /\ call = [p \in Clients |-> Idle]
    /\ gate = Constructed(DefaultMiddleware)
    /\ server = NotStarted
    /\ authn = NoAuthenticator

NextSearch ==
    \/ call_add_appointment("c1")
    \/ call_remove_appointment("c1")
    \/ call_search_appointments("c2")
    \/ call_get_slot("c2")
    \/ \E p \in Clients :
        \/ search_available_appointments(p)
        \/ get_appointment_slot(p)
        \/ Execute(p)
        \/ Commit(p)
        \/ Close(p)
        \/ Return(p)

SpecSearch == InitSearch /\ [][NextSearch]_vars

\* The seeded database in which the one registered user already holds the
\* slot of doctor 1 on 2030-01-09 at 9:00 and the slot of doctor 2 on
\* 2030-01-07 at 9:00; one client schedules, claims and releases slots, the
\* other lists the appointments of a user.
InitAppointments ==
    /\ db = [Registered(1) EXCEPT !.doctors = add_doctors,
                                  !.slots = [add_slots EXCEPT ![5].user_id = 1,
                                                              ![7].user_id = 1]]
    /\ txn = EmptyDb
    /\ writer = "none"
    /\ call = [p \in Clients |-> Idle]
    /\ gate = Constructed(DefaultMiddleware)
    /\ server = NotStarted
    /\ authn = NoAuthenticator

\* Appointments are booked for the higher amount.
NextAppointments ==
    \/ /\ call_schedule_appointment("c1")
       /\ call'["c1"].amount = 25
    \/ call_add_appointment("c1")
    \/ call_remove_appointment("c1")
    \/ call_get_user_appointments("c2")
    \/ \E p \in Clients :
        \/ get_user_appointments(p)
        \/ Execute(p)
        \/ Commit(p)
        \/ Close(p)
        \/ Return(p)

SpecAppointments == InitAppointments /\ [][NextAppointments]_vars

\* The gate alone, for every way the server may construct it.
InitGate ==
    /\ db = init_schema(EmptyDb)
    /\ txn = EmptyDb
    /\ writer = "none"
    /\ call = [p \in Clients |-> Idle]
    /\ \E jwt \in Authenticators, required \in BOOLEAN,
          allowlist_paths \in {{}, {"/health"}, {"/health", "/mcp"}} :
        gate = Constructed(JwtAuthMiddleware(jwt, required, allowlist_paths))
    /\ server = NotStarted
    /\ authn = NoAuthenticator

NextGate == Receive \/ JwtAuthMiddleware_call \/ Finished

SpecGate == InitGate /\ [][NextGate]_vars

\* The server, started in any environment with an HTTP transport.
InitServer ==
    /\ db = init_schema(EmptyDb)
    /\ txn = EmptyDb
    /\ writer = "none"
    /\ call = [p \in Clients |-> Idle]
    /\ gate = Constructed(DefaultMiddleware)
    /\ authn = NoAuthenticator
    /\ \E transport \in Transports, env \in Environments : server = run(transport, env)

NextServer == ServerReceive \/ ServerCall \/ ServerFinished

SpecServer == InitServer /\ [][NextServer]_vars

\* The authenticator alone, in each of its configurations.
InitAuthenticator ==
    /\ db = init_schema(EmptyDb)
    /\ txn = EmptyDb
    /\ writer = "none"
    /\ call = [p \in Clients |-> Idle]
    /\ gate = Constructed(DefaultMiddleware)
    /\ server = NotStarted
    /\ \E jwt \in Verifiers : authn = Authenticator(jwt)

NextAuthenticator == Issue \/ Sign \/ Tamper \/ Tick \/ Verify \/ Discard

SpecAuthenticator == InitAuthenticator /\ [][NextAuthenticator]_vars

\* The authenticator with its earlier calls: tokens are issued, changed,
\* verified again and again by callers and by the middleware.
NextHistory ==
    Issue \/ Tamper \/ Tick \/ Verify \/ Reverify \/ JwtAuthMiddleware_verify \/ Discard

SpecHistory == InitAuthenticator /\ [][NextHistory]_vars

\* ----------------------------------------------------------------- C1
Claimed(p) == call[p].op = "add_appointment" /\ call[p].pc = "done"

\* Two add_appointment calls on the same slot, each invoked while the slot
\* existed and was unoccupied, have both completed.
Raced(p, q) ==
    /\ p # q
    /\ Claimed(p) /\ Claimed(q)
    /\ call[p].slot_id = call[q].slot_id
    /\ call[p].snap = NULL /\ call[q].snap = NULL

\* p returned the slot id, q failed with ConflictError, the occupant is p's user.
WonAgainst(p, q) ==
    /\ call[p].res = Ok(call[p].slot_id)
    /\ call[q].res.kind = "ConflictError"
    /\ db.slots[call[p].slot_id].user_id = call[p].user_id

\* C1 as stated: for any two user ids, of two add_appointment calls racing on
\* an unoccupied slot exactly one returns the slot id, the other fails with
\* ConflictError, and the occupant is the user of the successful call.
C1_AnyUserIds ==
    \A p, q \in Clients : Raced(p, q) => WonAgainst(p, q) \/ WonAgainst(q, p)

\* C1 amended: the same, for any two ids of registered users.
C1_ExactlyOneClaimWins ==
    \A p, q \in Clients :
        Raced(p, q) /\ call[p].user_id \in DOMAIN db.users
                    /\ call[q].user_id \in DOMAIN db.users
            => WonAgainst(p, q) \/ WonAgainst(q, p)

\* Two different registered users raced and both calls have completed.
C1_Witness ==
    \E p, q \in Clients :
        /\ Raced(p, q)
        /\ call[p].user_id \in DOMAIN db.users
        /\ call[q].user_id \in DOMAIN db.users
        /\ call[p].user_id # call[q].user_id
        /\ WonAgainst(p, q)

\* ------------------------------------------------------------ C2 .. C4
\* The client's call moves in this step.
Moves(p) == call'[p] # call[p]

\* p's add_appointment executes its UPDATE in this step.
ClaimUpdates(p) ==
    call[p].repo = "add_appointment" /\ call[p].pc = "exec" /\ Moves(p)

\* p's add_appointment commits and returns to its caller in this step.
ClaimReturns(p) ==
    call[p].repo = "add_appointment" /\ call[p].pc = "commit" /\ Moves(p)

SlotFree(s) == s \in DOMAIN db.slots /\ db.slots[s].user_id = NULL

\* C2: add_appointment(user_id, slot_id) succeeds only if, when its UPDATE
\* runs, the slot exists and has no occupant; on success it returns slot_id
\* and the slot's occupant is user_id.
C2_ClaimOnlyIfFree ==
    [][\A p \in Clients :
        /\ ClaimUpdates(p) /\ call'[p].rowcount = 1 => SlotFree(call[p].slot_id)
        /\ ClaimReturns(p) /\ call[p].op = "add_appointment"
                           /\ call'[p].res.kind = "ok"
              => /\ call[p].rowcount = 1
                 /\ call'[p].res.value = call[p].slot_id
                 /\ db'.slots[call[p].slot_id].user_id = call[p].user_id]_vars

\* An add_appointment call has returned its slot id and its user occupies the slot.
C2_Witness ==
    \E p \in Clients :
        /\ Claimed(p)
        /\ call[p].res = Ok(call[p].slot_id)
        /\ Occupant(db.slots, call[p].slot_id) = call[p].user_id

\* C3: add_appointment on a slot id that does not exist and on a slot that is
\* occupied fail alike: the UPDATE matches no row whatever the cause, the call
\* raises ConflictError with the one message, built from the slot id alone,
\* and no slot changes.
C3_ConflictAlike ==
    [][\A p \in Clients :
        /\ ClaimUpdates(p) /\ ~SlotFree(call[p].slot_id)
              => /\ call'[p].pc = "commit"
                 /\ call'[p].rowcount = 0
                 /\ txn'.slots = db.slots
        /\ ClaimReturns(p) /\ call[p].rowcount = 0
              => /\ call'[p].pc = "done"
                 /\ call'[p].res =
                        [kind |-> "ConflictError", value |-> 0,
                         msg |-> <<"Slot ", call[p].slot_id,
                                   " is not available (already booked or does not exist).">>]
                 /\ db'.slots = db.slots]_vars

\* Both causes have happened: one call failed on a slot id that does not
\* exist, another on a slot that was occupied when it was invoked.
C3_Witness ==
    \E p, q \in Clients :
        /\ Claimed(p) /\ call[p].snap = -1 /\ call[p].res.kind = "ConflictError"
        /\ Claimed(q) /\ call[q].snap > 0 /\ call[q].res.kind = "ConflictError"

\* p's remove_appointment executes its UPDATE / commits and returns in this step.
ReleaseUpdates(p) ==
    call[p].repo = "remove_appointment" /\ call[p].pc = "exec" /\ Moves(p)

ReleaseReturns(p) ==
    call[p].repo = "remove_appointment" /\ call[p].pc = "commit" /\ Moves(p)

\* C4: remove_appointment(slot_id) never raises and leaves the slot
\* unoccupied whoever occupied it; on a free slot or an unknown id it changes
\* nothing, and a second remove_appointment would change nothing either.
C4_ReleaseIdempotent ==
    [][\A p \in Clients :
        /\ ReleaseUpdates(p) => call'[p].pc = "commit"
        /\ ReleaseReturns(p)
              => LET s == call[p].slot_id IN
                 /\ call'[p].pc = "done" /\ call'[p].res.kind = "ok"
                 /\ DOMAIN db'.slots = DOMAIN db.slots
                 /\ s \in DOMAIN db.slots => db'.slots[s].user_id = NULL
                 /\ \A t \in DOMAIN db.slots \ {s} : db'.slots[t] = db.slots[t]
                 /\ (s \notin DOMAIN db.slots \/ SlotFree(s)) => db' = db
                 /\ remove_appointment_stmt(db', s).d = db']_vars

\* A slot claimed by one client's call has been released by the other's.
C4_Witness ==
    \E p, q \in Clients :
        /\ Claimed(p) /\ call[p].res.kind = "ok"
        /\ call[q].op = "remove_appointment" /\ call[q].pc = "done"
        /\ call[q].slot_id = call[p].slot_id
        /\ call[q].res.kind = "ok"
        /\ SlotFree(call[p].slot_id)

\* ----------------------------------------------------------------- C5
\* The client's last three calls were a successful add_appointment(u1, s),
\* then remove_appointment(s), then add_appointment(u2, s) for a registered
\* user u2, and the third has completed.
Rebooked(p) ==
    /\ Claimed(p)
    /\ call[p].user_id \in DOMAIN db.users
    /\ Len(call[p].trail) = 2
    /\ call[p].trail[1].op = "add_appointment"
    /\ call[p].trail[1].kind = "ok"
    /\ call[p].trail[1].slot_id = call[p].slot_id
    /\ call[p].trail[2].op = "remove_appointment"
    /\ call[p].trail[2].slot_id = call[p].slot_id

\* C5: a slot is rebookable after release: after a successful
\* add_appointment(u1, s) and remove_appointment(s), with nothing in between,
\* add_appointment(u2, s) returns s and the occupant of s is u2.
C5_RebookAfterRelease ==
    Rebooked("c1") =>
        /\ call["c1"].res = Ok(call["c1"].slot_id)
        /\ db.slots[call["c1"].slot_id].user_id = call["c1"].user_id

\* The slot has been rebooked by a user other than the one who held it.
C5_Witness ==
    /\ Rebooked("c1")
    /\ call["c1"].trail[1].user_id # call["c1"].user_id
    /\ call["c1"].res.kind = "ok"

\* ----------------------------------------------------------------- C6
\* Slot s has an occupant after this step that it did not have before it
\* (a slot that is not there has none).
OccupantChanges(s) == Occupant(db'.slots, s) # Occupant(db.slots, s)

\* The step commits an add_appointment(u, s) whose UPDATE matched the row of
\* the unoccupied slot s.
ClaimedBy(p, s) ==
    /\ ClaimReturns(p)
    /\ call[p].slot_id = s /\ call[p].rowcount = 1
    /\ Occupant(db.slots, s) = NULL
    /\ Occupant(db'.slots, s) = call[p].user_id

\* The step commits a remove_appointment(s).
ReleasedBy(p, s) ==
    /\ ReleaseReturns(p)
    /\ call[p].slot_id = s
    /\ Occupant(db'.slots, s) = NULL

\* The step is a database reset, which leaves every seeded slot unoccupied.
ResetBy(p, s) ==
    /\ call[p].repo = "reset_schema" /\ call[p].pc = "exec" /\ Moves(p)
    /\ Occupant(db'.slots, s) = NULL

\* C6 as stated: an occupant changes only from unset to u by a successful
\* add_appointment(u, s), or to unset by remove_appointment(s).
C6_OnlyClaimAndRelease ==
    [][\A s \in SlotIds :
        OccupantChanges(s) => \E p \in Clients : ClaimedBy(p, s) \/ ReleasedBy(p, s)]_vars

\* C6 amended: ... or to unset by a database reset (reset_database), which
\* drops the slots table and seeds it again with every slot unoccupied.
C6_OnlyClaimReleaseReset ==
    [][\A s \in SlotIds :
        OccupantChanges(s)
            => \E p \in Clients : ClaimedBy(p, s) \/ ReleasedBy(p, s) \/ ResetBy(p, s)]_vars

\* A slot is occupied by the user of a schedule_appointment call that has
\* returned, while the other client has a reset in hand.
C6_Witness ==
    \E p, q \in Clients :
        /\ call[p].op = "schedule_appointment" /\ call[p].pc = "done"
        /\ call[p].res.kind = "ok"
        /\ Occupant(db.slots, call[p].slot_id) = call[p].user_id
        /\ call[q].op = "reset_database" /\ call[q].pc = "exec"

\* ------------------------------------------------------------ C7 .. C9
Scheduling(p) == call[p].op = "schedule_appointment"

\* The step in which p's call comes to its end.
Ends(p) == call[p].pc # "done" /\ call'[p].pc = "done"

\* C7: a schedule_appointment call that ends in ConflictError ends in its
\* claim step and records no bill: the step that raises it leaves the bill
\* ledger as it was, and the call has never reached bill_user.
C7_NoBillOnConflict ==
    [][\A p \in Clients :
        /\ Scheduling(p) /\ Ends(p) /\ call'[p].res.kind = "ConflictError"
              => /\ call[p].repo = "add_appointment"
                 /\ call[p].booked = 0
                 /\ db'.bills = db.bills
        /\ Scheduling(p) /\ call[p].repo = "add_appointment" /\ Moves(p)
              => db'.bills = db.bills]_vars

\* A schedule_appointment call has ended in ConflictError.
C7_Witness ==
    \E p \in Clients :
        /\ Scheduling(p) /\ call[p].pc = "done"
        /\ call[p].res.kind = "ConflictError"
        /\ Len(db.bills) > 0

\* p's bill_user call, made after its claim succeeded, fails in this step.
BillingFails(p) ==
    /\ Scheduling(p) /\ call[p].repo = "bill_user"
    /\ call[p].pc \in {"exec", "close"} /\ Moves(p)
    /\ call'[p].pc \in {"close", "done"}

\* C8: when bill_user fails after the claim succeeded, no step of the call
\* touches the slots (a slot held by the requesting user stays held by that
\* user), the bill ledger is unchanged, and the call ends with the billing
\* failure.
C8_NoCompensation ==
    [][\A p \in Clients :
        BillingFails(p)
            => /\ db'.slots = db.slots
               /\ db'.bills = db.bills
               /\ call'[p].res.kind = "IntegrityError"
               /\ call'[p].pc = "done" => call[p].pc = "close"]_vars

\* A call has ended in the billing failure and its user still holds the slot.
C8_Witness ==
    \E p \in Clients :
        /\ Scheduling(p) /\ call[p].pc = "done"
        /\ call[p].repo = "bill_user"
        /\ call[p].res.kind = "IntegrityError"
        /\ Occupant(db.slots, call[p].slot_id) = call[p].user_id

\* C9: a schedule_appointment(user_id, pay_id, slot_id, amount) call that
\* succeeds returns slot_id; its claim step leaves the bill ledger alone; its
\* last step, after the claim, appends the one bill (pay_id, slot_id, amount).
C9_OneBillAfterClaim ==
    [][\A p \in Clients :
        /\ Scheduling(p) /\ ClaimReturns(p) => db'.bills = db.bills
        /\ Scheduling(p) /\ Moves(p) /\ call[p].pc = "exec" => db'.bills = db.bills
        /\ Scheduling(p) /\ Ends(p) /\ call'[p].res.kind = "ok"
              => /\ call[p].repo = "bill_user"
                 /\ call[p].booked = call[p].slot_id
                 /\ call'[p].res.value = call[p].slot_id
                 /\ db'.bills = Append(db.bills, [pay_id |-> call[p].pay_id,
                                                  slot_id |-> call[p].slot_id,
                                                  amount |-> call[p].amount])]_vars

\* A call has succeeded and the last bill is its bill.
C9_Witness ==
    \E p \in Clients :
        /\ Scheduling(p) /\ call[p].pc = "done" /\ call[p].res.kind = "ok"
        /\ Len(db.bills) > 1
        /\ db.bills[Len(db.bills)] = [pay_id |-> call[p].pay_id,
                                      slot_id |-> call[p].slot_id,
                                      amount |-> call[p].amount]

\* ---------------------------------------------------------------- C10
\* The request carries no Authorization header of the form "Bearer <token>".
NoBearerHeader(scope) ==
    ~\E i \in DOMAIN scope.headers :
        /\ Lower(scope.headers[i].name) = "authorization"
        /\ Lower(scope.headers[i].value.scheme) = "bearer"
        /\ scope.headers[i].value.sp

\* Authentication is required and the request is an HTTP request to a path
\* outside the allowlist.
Protected(g) ==
    /\ g.mw.required
    /\ g.scope.type = "http"
    /\ g.scope.path \notin g.mw.allowlist_paths

Answered401(g) == Len(g.out.sent) = 2 /\ g.out.sent[1].status = 401

\* C10: with authentication required, an HTTP request to a non-allowlisted
\* path that carries no Authorization header of the form "Bearer <token>" is
\* answered 401 and the wrapped application is not invoked for it.
C10_NoBearerIs401 ==
    gate.pc = "done" /\ Protected(gate) /\ NoBearerHeader(gate.scope)
        => Answered401(gate) /\ gate.out.app = <<>>

\* ---------------------------------------------------------- C11, C12
\* The Authorization header the middleware looks at has the form
\* "Bearer <token>".
HasBearer(scope) ==
    LET auth == get(scope.headers, "authorization")
    IN  Lower(auth.scheme) = "bearer" /\ auth.sp

\* What verify makes of that token when the middleware is called.
Verdict(g) ==
    verify(g.mw.jwt, strip(get(g.scope.headers, "authorization").rest), g.now,
           leeway_seconds)

\* C11: with authentication required, an HTTP request to a non-allowlisted
\* path whose bearer token fails verify, for whatever reason, is answered
\* with one and the same 401 response, and the wrapped application is not
\* invoked for it.
C11_InvalidTokenIs401 ==
    /\ gate.pc = "done" /\ Protected(gate) /\ HasBearer(gate.scope)
    /\ Verdict(gate).raised # ""
    => gate.out = Unauthorized("{\"error\":\"invalid token\"}")

\* C12: with authentication required, an HTTP request to a non-allowlisted
\* path whose bearer token verify accepts is handed to the wrapped
\* application exactly once, with its scope unchanged, and the middleware
\* itself sends nothing.
C12_ValidTokenForwarded ==
    /\ gate.pc = "done" /\ Protected(gate) /\ HasBearer(gate.scope)
    /\ Verdict(gate).raised = ""
    => gate.out = Forwarded(gate.scope)

\* ---------------------------------------------------------- C13, C15
\* The request carries a bearer token that verify accepts.
Authenticated(g) == HasBearer(g.scope) /\ Verdict(g).raised = ""

\* The configuration lets the path through: authentication is disabled or
\* the path is in the allowlist.
Exempt(g) == (~g.mw.required) \/ g.scope.path \in g.mw.allowlist_paths

\* C13: a request is forwarded to the wrapped application without a
\* credential check (it is forwarded although it carries no token that verify
\* accepts) only if its path is in the allowlist or authentication is
\* disabled; and every request whose path is in the allowlist, and every
\* request when authentication is disabled, is forwarded.
C13_BypassIffExempt ==
    gate.pc = "done"
        => /\ gate.out.app # <<>> /\ ~Authenticated(gate) => Exempt(gate)
           /\ Exempt(gate) => gate.out = Forwarded(gate.scope)

\* C15: with authentication required, for a scope of any type and method
\* whose path is not in the allowlist, the wrapped application is invoked
\* only if the request carries a bearer token that verify accepts.
C15_EveryScopeChecked ==
    /\ gate.pc = "done" /\ gate.mw.required
    /\ gate.scope.path \notin gate.mw.allowlist_paths
    /\ gate.out.app # <<>>
    => Authenticated(gate)

\* ---------------------------------------------------------------- C14
\* The middleware is installed and the request is an HTTP request to a path
\* outside the allowlist.
ServerProtected(app, scope) ==
    /\ app.jwt # <<>>
    /\ scope.type = "http"
    /\ scope.path \notin app.jwt[1].allowlist_paths

\* C14: of two requests to the same protected path, one without a
\* credential and one with a token that verify rejects, the caller gets the
\* same response: the same messages, with the same status and body.
C14_MissingAndInvalidAlike ==
    /\ server.pc = "done"
    /\ ServerProtected(server.app, server.scope)
    /\ ServerProtected(server.app, server.last.scope)
    /\ server.last.scope.path = server.scope.path
    /\ server.last.scope.headers = <<>>
    /\ HasBearer(server.scope)
    /\ verify(server.app.jwt[1].jwt, strip(get(server.scope.headers, "authorization").rest),
              server.now, leeway_seconds).raised # ""
    => server.out.sent = server.last.out.sent

\* ---------------------------------------------------------------- C16
\* C16: in every server configuration, GET /health without a credential is
\* answered with the 200 status payload, not with 401.
C16_HealthAlwaysOpen ==
    /\ server.pc = "done"
    /\ server.scope.type = "http" /\ server.scope.path = "/health"
    /\ server.scope.method = "GET" /\ server.scope.headers = <<>>
    => /\ Len(server.out.sent) = 2
       /\ server.out.sent[1].status = 200
       /\ server.out.sent[2].body = <<HealthPayload(server.app.settings)>>

\* ---------------------------------------------------------------- C17
\* The token was issued by an authenticator configured as the verifier is,
\* at this reading of the clock, and has not been changed.
JustIssued(a) ==
    /\ a.origin.kind = "issued" /\ a.origin.changed = ""
    /\ a.origin.by = a.jwt
    /\ a.origin.at = a.now

\* C17: for every configuration and every valid_seconds >= 0, verify with
\* leeway 0 right after generate_demo_token(valid_seconds), by an
\* authenticator of the same configuration, succeeds and returns the issued
\* subject and role, iat = now, exp = now + valid_seconds, and the
\* configured audience and issuer when there are any.
C17_RoundTrip ==
    /\ authn.pc = "verified" /\ JustIssued(authn)
    /\ authn.leeway = 0 /\ authn.origin.valid_seconds >= 0
    => /\ authn.res.raised = ""
       /\ authn.res.payload =
            <<Payload(<<"demo-user">>, <<"demo">>, <<JsonInt(authn.now)>>,
                      <<JsonInt(authn.now + authn.origin.valid_seconds)>>, <<>>,
                      IF authn.jwt.audience \in {None, ""} THEN <<>>
                      ELSE <<authn.jwt.audience>>,
                      IF authn.jwt.issuer \in {None, ""} THEN <<>>
                      ELSE <<authn.jwt.issuer>>)>>

\* ---------------------------------------------------------------- C18
\* The token has three segments, the supported algorithm tag, a payload
\* object, and the signature the verifier's secret gives its header and
\* payload.
CorrectlySigned(a) ==
    /\ Len(a.token) = 3
    /\ a.token[1] = Header("HS256")
    /\ a.token[2].form = "object"
    /\ a.token[3] = _sign(a.jwt.secret, a.token[1], a.token[2])

Expired(a) == a.token[2].exp # <<>> /\ a.now > a.token[2].exp[1].v + a.leeway
NotYetValid(a) == a.token[2].nbf # <<>> /\ a.now < a.token[2].nbf[1].v - a.leeway

\* C18: a correctly signed token is accepted only inside its validity
\* window: verify fails with "JWT expired" whenever now > exp + leeway, and
\* with "JWT not active yet" whenever nbf is present and now < nbf - leeway
\* (and the token is not expired as well); a token issued with
\* valid_seconds = -1 is among the expired ones at leeway 0.
C18_OnlyInsideWindow ==
    authn.pc = "verified" /\ CorrectlySigned(authn)
    => /\ Expired(authn) => authn.res = Rejected("ValueError", "JWT expired")
       /\ NotYetValid(authn) /\ ~Expired(authn)
            => authn.res = Rejected("ValueError", "JWT not active yet")

\* ---------------------------------------------------------------- C19
\* The token verified before its signature segment was changed.
ValidBeforeChange(a) ==
    /\ a.origin.changed = "signature"
    /\ verify(a.jwt, <<a.token[1], a.token[2],
                       _sign(a.origin.by.secret, a.token[1], a.token[2])>>,
              a.now, a.leeway).raised = ""

\* C19: verify never succeeds on a token whose signature segment is not
\* the keyed hash, under the verifier's secret, of its header and payload
\* segments, and a valid token whose signature segment was changed is
\* rejected with "Invalid JWT signature".
C19_NoForgery ==
    authn.pc = "verified" /\ Len(authn.token) = 3
    => /\ authn.token[3] # _sign(authn.jwt.secret, authn.token[1], authn.token[2])
            => authn.res.raised # ""
       /\ ValidBeforeChange(authn)
            => authn.res = Rejected("ValueError", "Invalid JWT signature")

\* ---------------------------------------------------------------- C20
\* The first check that fails, in the order format, algorithm, signature,
\* expiry, not-before, audience, issuer; "" when none fails.
FirstFailing(a) ==
    IF Len(a.token) # 3 THEN "Invalid JWT format"
    ELSE IF a.token[1].alg # "HS256" THEN "Only HS256 supported in this demo"
    ELSE IF a.token[3] # _sign(a.jwt.secret, a.token[1], a.token[2])
        THEN "Invalid JWT signature"
    ELSE IF Expired(a) THEN "JWT expired"
    ELSE IF NotYetValid(a) THEN "JWT not active yet"
    ELSE IF a.jwt.audience # None /\ a.token[2].aud # <<a.jwt.audience>>
        THEN "JWT audience mismatch"
    ELSE IF a.jwt.issuer # None /\ a.token[2].iss # <<a.jwt.issuer>>
        THEN "JWT issuer mismatch"
    ELSE ""

CorrectlySignedSegments(a) ==
    /\ Len(a.token) = 3
    /\ a.token[1].form = "object" /\ a.token[1].alg = "HS256"
    /\ a.token[3] = _sign(a.jwt.secret, a.token[1], a.token[2])

\* The header segment decodes to an object, and so does the payload
\* segment when the checks get as far as the claims.
Checkable(a) ==
    /\ Len(a.token) = 3 => a.token[1].form = "object"
    /\ CorrectlySignedSegments(a) => a.token[2].form = "object"

\* C20: verify reports the first failing check in the order format,
\* algorithm, signature, expiry, not-before, audience, issuer: an
\* unsupported algorithm tag is reported whatever the signature and the
\* payload are, and a wrong signature is reported even when the token is
\* expired or carries another audience or issuer.
C20_FirstFailingCheck ==
    authn.pc = "verified" /\ Checkable(authn)
    => IF FirstFailing(authn) = "" THEN authn.res.raised = ""
       ELSE authn.res = Rejected("ValueError", FirstFailing(authn))

\* ---------------------------------------------------------------- C21
\* The verifier expects an audience (an issuer): one is configured and it
\* is not the empty string.
Expects(expectation) == expectation \notin {None, ""}

\* C21: on a correctly signed token inside its validity window, verify
\* compares the aud (iss) claim with the configured audience (issuer)
\* exactly when that is non-empty, and raises the mismatch error when the
\* claim differs or is absent; an unset or empty expectation is not
\* checked, whatever the claim.
C21_ExpectationsChecked ==
    authn.pc = "verified" /\ CorrectlySigned(authn)
        /\ ~Expired(authn) /\ ~NotYetValid(authn)
    => IF Expects(authn.jwt.audience) /\ authn.token[2].aud # <<authn.jwt.audience>>
       THEN authn.res = Rejected("ValueError", "JWT audience mismatch")
       ELSE IF Expects(authn.jwt.issuer) /\ authn.token[2].iss # <<authn.jwt.issuer>>
       THEN authn.res = Rejected("ValueError", "JWT issuer mismatch")
       ELSE authn.res = Verified(authn.token[2])

\* ---------------------------------------------------------------- C22
\* A call of verify begins and returns in this step.
VerifyCall == authn.pc = "token" /\ authn'.pc = "verified"

\* An earlier call, by a caller or by the middleware, had the same token,
\* clock reading and leeway.
SameCallBefore ==
    /\ authn.prev.token = authn.token
    /\ authn.prev.now = authn.now
    /\ authn.prev.leeway = authn'.leeway

Searched(p) ==
    /\ call[p].pc = "exec" /\ call[p].repo = "search_available_appointments"
    /\ call'[p].pc = "done"

Ascending(rows) ==
    \A i, j \in DOMAIN rows :
        i < j => \/ rows[i].date < rows[j].date
                 \/ rows[i].date = rows[j].date /\ rows[i].start_time <= rows[j].start_time

\* C23: a search never returns a slot that is occupied when the query
\* runs, returns its rows in ascending (date, start time) order, and
\* returns at most 10 of them.
C23_SearchSafe ==
    [][\A p \in Clients : Searched(p) =>
            /\ \A k \in DOMAIN call'[p].rows :
                    Occupant(db.slots, call'[p].rows[k].slot_id) = NULL
            /\ Ascending(call'[p].rows)
            /\ Len(call'[p].rows) <= 10]_vars

\* A search has returned ten rows, cut off, while a slot was occupied, and
\* the rows are not in the order of their slot ids.
C23_Witness ==
    \E p \in Clients :
        /\ call[p].pc = "done" /\ call[p].repo = "search_available_appointments"
        /\ Len(call[p].rows) = 10
        /\ \E s \in DOMAIN db.slots : db.slots[s].user_id # NULL
        /\ \E i, j \in DOMAIN call[p].rows :
                i < j /\ call[p].rows[i].slot_id > call[p].rows[j].slot_id

\* ---------------------------------------------------------------- C24
\* sub occurs in text, letters compared without regard to case.
Contains(text, sub) ==
    \E k \in 0..(Len(text) - Len(sub)) :
        \A i \in 1..Len(sub) : LowerChar(text[k + i]) = LowerChar(sub[i])

\* Every date bound the query gives is a date.
DatesGiven(q) ==
    /\ Given(q.start_date) => date(q.start_date[1]) # NULL
    /\ Given(q.end_date) => date(q.end_date[1]) # NULL

\* The slots the query asks for: unoccupied, of the specialty, of a doctor
\* whose name contains the text, inside the range of dates.
Wanted(d, q) ==
    {i \in DOMAIN d.slots :
        /\ d.slots[i].user_id = NULL
        /\ d.doctors[d.slots[i].dr_id].specialty = q.specialty
        /\ Given(q.doctor_name)
            => Contains(Text(d.doctors[d.slots[i].dr_id].dr_name), q.doctor_name[1])
        /\ Given(q.start_date) => d.slots[i].date >= date(q.start_date[1])
        /\ Given(q.end_date) => d.slots[i].date <= date(q.end_date[1])}

\* rows are the first 10 of the slots S in ascending (date, start time)
\* order.
FirstTen(d, rows, S) ==
    /\ Ascending(rows)
    /\ {rows[k].slot_id : k \in DOMAIN rows} \subseteq S
    /\ \A k \in DOMAIN rows : rows[k] = AppointmentSlot(d, rows[k].slot_id)
    /\ \A k, l \in DOMAIN rows : k # l => rows[k].slot_id # rows[l].slot_id
    /\ Len(rows) = IF Cardinality(S) > 10 THEN 10 ELSE Cardinality(S)
    /\ \A i \in S \ {rows[k].slot_id : k \in DOMAIN rows} :
            \A k \in DOMAIN rows : NotAfter(d.slots, rows[k].slot_id, i)

\* C24: for every store state and every query, the search returns exactly
\* the first 10, in ascending (date, start time) order, of the unoccupied
\* slots of the given specialty whose doctor's name contains the given
\* text, whatever the case of its letters, and whose date is inside the
\* inclusive range of the bounds given.
C24_SearchExact ==
    [][\A p \in Clients : Searched(p) /\ DatesGiven(call[p].query) =>
            FirstTen(db, call'[p].rows, Wanted(db, call[p].query))]_vars

\* ---------------------------------------------------------------- C25
\* In this step client p's get_appointment_slot returns.
LookedUp(p) ==
    /\ call[p].pc = "exec" /\ call[p].repo = "get_appointment_slot"
    /\ call'[p].pc = "done"

\* C25: get_slot(slot_id) returns the slot when the id exists, occupied or
\* not, returns None and raises nothing when it does not exist, and
\* changes no slot, user, payment method or bill.
C25_FindSlotReadOnly ==
    [][\A p \in Clients : LookedUp(p) =>
            /\ call'[p].res.kind = "ok"
            /\ IF call[p].slot_id \in DOMAIN db.slots
               THEN /\ Len(call'[p].rows) = 1
                    /\ call'[p].rows[1].slot_id = call[p].slot_id
                    /\ call'[p].rows[1].date = db.slots[call[p].slot_id].date
                    /\ call'[p].rows[1].start_time = db.slots[call[p].slot_id].start_time
               ELSE call'[p].rows = <<>>
            /\ db' = db /\ txn' = txn]_vars

\* A lookup has returned a slot that is occupied.
C25_Witness ==
    \E p \in Clients :
        /\ call[p].pc = "done" /\ call[p].repo = "get_appointment_slot"
        /\ Len(call[p].rows) = 1
        /\ Occupant(db.slots, call[p].slot_id) > 0

\* A lookup of an unknown id has returned None.
C25_WitnessAbsent ==
    \E p \in Clients :
        /\ call[p].pc = "done" /\ call[p].repo = "get_appointment_slot"
        /\ call[p].rows = <<>> /\ call[p].res.kind = "ok"

\* ---------------------------------------------------------------- C28
\* The argument is absent or a date in YYYY-MM-DD form.
WellFormed(dt) == dt = <<>> \/ date(dt[1]) # NULL

\* C28: search_appointments rejects every start_date or end_date that is
\* not a date in YYYY-MM-DD form with ValidationError before the
\* repository is queried: a call with such an argument is never at the
\* repository's query and never returns rows.
C28_OnlyDatesReachSearch ==
    \A p \in Clients :
        /\ call[p].op = "search_appointments"
        /\ ~WellFormed(call[p].query.start_date) \/ ~WellFormed(call[p].query.end_date)
        => /\ call[p].pc = "done"
           /\ call[p].res.kind = "ValidationError"
           /\ call[p].rows = <<>>

\* ---------------------------------------------------------------- C26
\* Every bill on the ledger before the step is on it afterwards, unchanged
\* and under the same bill id.
BillsKept ==
    /\ Len(db'.bills) >= Len(db.bills)
    /\ \A b \in DOMAIN db.bills : db'.bills[b] = db.bills[b]

\* The step is a database reset: the ledger is empty afterwards.
LedgerReset ==
    /\ \E p \in Clients : call[p].repo = "reset_schema" /\ call[p].pc = "exec" /\ Moves(p)
    /\ db'.bills = <<>>

\* C26 as stated: no operation, cancel_appointment and the database reset
\* included, modifies or deletes a recorded bill; operations only add bills.
C26_AppendOnly == [][BillsKept]_vars

\* C26 amended: a recorded bill is never modified, and is deleted only by a
\* database reset, which drops the bills table as a whole; every other
\* operation only adds bills.
C26_AppendOnlyButReset == [][BillsKept \/ LedgerReset]_vars

\* A schedule_appointment has recorded a bill for a slot that has since
\* been released: the bill is still on the ledger.
C26_Witness ==
    \E b \in DOMAIN db.bills :
        /\ db.bills[b].slot_id # NULL
        /\ Occupant(db.slots, db.bills[b].slot_id) = NULL
        /\ \E p \in Clients : call[p].op = "remove_appointment" /\ call[p].pc = "done"
                                /\ call[p].slot_id = db.bills[b].slot_id

\* ---------------------------------------------------------------- C27
\* The invocation was given a membership tier that is none of regular,
\* silver, gold, or, through a tool, a card brand that is none of the
\* enumerated brands.
Rejectable(c) ==
    \/ c.tool = "add_user"
        /\ (c.membership_type \notin MembershipType \/ c.card_brand \notin CardBrand)
    \/ c.tool = "add_payment_method" /\ c.card_brand \notin CardBrand
    \/ c.tool = "" /\ c.op = "register_user" /\ c.membership_type \notin MembershipType

\* A step of such an invocation: the tool rejects it when it is invoked; a
\* call of the service enters add_user and is rejected there, before any
\* statement; then the failure is delivered.
RejectedStep(p) ==
    \/ /\ call[p].pc = "idle"
       /\ call'[p].tool # ""
       /\ call'[p].pc = "done"
       /\ call'[p].res.kind = "ValidationError"
    \/ /\ call[p].pc = "idle"
       /\ call'[p].tool = ""
       /\ call'[p].pc = "exec"
       /\ call'[p].repo = "add_user"
    \/ /\ call[p].pc = "exec"
       /\ call[p].tool = ""
       /\ call'[p].pc = "done"
       /\ call'[p].res.kind = "ValidationError"
    \/ /\ call[p].pc = "done"
       /\ call[p].res.kind = "ValidationError"
       /\ call'[p].pc = "idle"

Returned(q, u) ==
    /\ call[q].op = "register_user"
    /\ call[q].pc = "done"
    /\ call[q].res = Ok(u)

\* The User that get_user builds from the row of user u.
UserRecord(u) ==
    [user_id |-> ToString(u),
     ssn |-> db.users[u].social_security_number,
     membership_type |-> db.users[u].membership_type]

NoUserHas(ssn) == \A u \in DOMAIN db.users : db.users[u].social_security_number # ssn

\* C29 as stated, for a registration whose result its caller holds:
\* get_user(id) returns the record created by the registration that returned
\* id, with the membership tier given at that registration.
C29_ReadBackReturned ==
    [][\A p, q \in Clients :
        Ends(p) /\ call[p].op = "get_user" /\ Returned(q, call[p].user_id) =>
            /\ call'[p].res.kind = "ok"
            /\ call'[p].rows[1].ssn = call[q].ssn
            /\ call'[p].rows[1].membership_type = call[q].membership_type]_vars

\* The user records change in two ways only: the add_user step of a
\* registration creates the next record, with the national ID and the tier
\* the registration was given; a database reset deletes them all.
UsersStep ==
    \/ db'.users = db.users
    \/ \E p \in Clients :
        /\ call[p].op = "register_user" /\ call[p].repo = "add_user"
        /\ call[p].pc = "commit" /\ Moves(p)
        /\ db'.users = Append(db.users, [social_security_number |-> call[p].ssn,
                                         membership_type |-> call[p].membership_type])
        /\ call[p].user_id = Len(db'.users)
    \/ /\ \E p \in Clients : call[p].repo = "reset_schema" /\ call[p].pc = "exec" /\ Moves(p)
       /\ db'.users = <<>>

\* A registration that succeeds returns the id of the record it created,
\* which holds its tier.
RegisterStep(p) ==
    Ends(p) /\ call[p].op = "register_user" /\ call'[p].res.kind = "ok" =>
        /\ call'[p].res.value = call[p].user_id
        /\ call[p].user_id \in DOMAIN db'.users
        /\ db'.users[call[p].user_id].social_security_number = call[p].ssn
        /\ db'.users[call[p].user_id].membership_type = call[p].membership_type

GetUserStep(p) ==
    Ends(p) /\ call[p].op = "get_user" =>
        /\ db' = db
        /\ IF call[p].user_id \in DOMAIN db.users
           THEN call'[p].res.kind = "ok" /\ call'[p].rows = <<UserRecord(call[p].user_id)>>
           ELSE call'[p].res.kind = "NotFoundError"

GetUserIdStep(p) ==
    Ends(p) /\ call[p].op = "get_user_id" =>
        /\ db' = db
        /\ NoUserHas(call[p].ssn) => call'[p].res.kind = "NotFoundError"

\* C29 amended: get_user(id) returns the record that a registration has
\* created under id since the last database reset, with the membership tier
\* given at that registration, and for every id under which no registration
\* has created a record since the last reset it fails with NotFoundError
\* without changing state; get_user_id(ssn) fails with NotFoundError when no
\* user has that ssn.
C29_ReadBackSinceReset ==
    [][/\ UsersStep
       /\ \A p \in Clients : RegisterStep(p) /\ GetUserStep(p) /\ GetUserIdStep(p)]_vars

\* A registration with tier silver has returned an id, and a get_user of
\* that id has returned the record with tier silver.
C29_Witness ==
    \E p, q \in Clients :
        /\ Returned(q, call[p].user_id)
        /\ call[q].membership_type = "silver"
        /\ call[p].op = "get_user"
        /\ call[p].pc = "done"
        /\ call[p].res.kind = "ok"
        /\ call[p].rows = <<[user_id |-> ToString(call[p].user_id), ssn |-> call[q].ssn,
                             membership_type |-> "silver"]>>

\* ---------------------------------------------------------------- C30
\* No two of the user records share a social security number.  (A record's
\* user id is its place in the table, so no two records share a user id.)
UniqueSsn(users) ==
    \A u, v \in DOMAIN users :
        u # v => users[u].social_security_number # users[v].social_security_number

\* C30: user identifiers and national IDs are unique: after any sequence of
\* registrations no two user records share a social security number, and
\* once register_user with national ID n has returned u, get_user_id(n)
\* returns u.
C30_UniqueIdentity ==
    [][/\ UniqueSsn(db'.users)
       /\ \A p, q \in Clients :
            /\ Ends(p)
            /\ call[p].op = "get_user_id"
            /\ Returned(q, call[q].res.value)
            /\ call[q].ssn = call[p].ssn
            => call'[p].res = call[q].res]_vars

\* ---------------------------------------------------------------- C31
Listed(p) ==
    /\ call[p].pc = "exec" /\ call[p].repo = "get_user_appointments"
    /\ call'[p].pc = "done"

\* C31: get_user_appointments(u) returns exactly the slots whose occupant is
\* u at the time of the call, each once, in ascending (date, start time)
\* order, and changes nothing.
C31_ExactlyOwnSlots ==
    [][\A p \in Clients :
        Listed(p) =>
            LET rows == call'[p].rows
                own == {i \in DOMAIN db.slots : db.slots[i].user_id = call[p].user_id}
            IN  /\ call'[p].res.kind = "ok"
                /\ {rows[k].slot_id : k \in DOMAIN rows} = own
                /\ Len(rows) = Cardinality(own)
                /\ \A k \in DOMAIN rows : rows[k] = AppointmentSlot(db, rows[k].slot_id)
                /\ Ascending(rows)
                /\ db' = db]_vars

\* A schedule_appointment of user u for slot s has succeeded, and a listing
\* of u's appointments holds s after a slot with a higher id, which is not
\* later in date and time.
C31_Witness ==
    \E p, q \in Clients :
        /\ call[q].op = "schedule_appointment" /\ call[q].pc = "done"
        /\ call[q].res = Ok(call[q].slot_id)
        /\ call[p].op = "get_user_appointments" /\ call[p].pc = "done"
        /\ call[p].user_id = call[q].user_id
        /\ \E i, j \in DOMAIN call[p].rows :
                /\ i < j
                /\ call[p].rows[j].slot_id = call[q].slot_id
                /\ call[p].rows[i].slot_id > call[p].rows[j].slot_id

\* ---------------------------------------------------------------- C32
\* A step of a schedule_appointment invocation of client p.
ScheduleStep(p) ==
    Moves(p) /\ (call[p].op = "schedule_appointment" \/ call'[p].op = "schedule_appointment")

\* C32: a schedule_appointment invocation makes one claim attempt, on the
\* requested slot only: the claim is entered only when the invocation starts,
\* the requested slot and user stay the same throughout, a claim that matched
\* no row ends the invocation with ConflictError at once, a finished
\* invocation does nothing more, and the only slot the invocation ever
\* writes is the requested one, in its claim.
C32_NoRetry ==
    [][\A p \in Clients :
        ScheduleStep(p) =>
            /\ call'[p].repo = "add_appointment" /\ call'[p].pc = "exec"
                => call[p].pc = "idle"
            /\ call[p].pc # "idle" /\ call'[p].pc # "idle"
                => call'[p].slot_id = call[p].slot_id /\ call'[p].user_id = call[p].user_id
            /\ call[p].repo = "add_appointment" /\ call[p].pc = "commit" /\ call[p].rowcount # 1
                => call'[p].pc = "done" /\ call'[p].res.kind = "ConflictError"
            /\ call[p].pc = "done" => call'[p].pc = "idle" /\ db' = db
            /\ db'.slots # db.slots
                => /\ call[p].repo = "add_appointment" /\ call[p].pc = "commit"
                   /\ db'.slots = [db.slots EXCEPT ![call[p].slot_id].user_id = call[p].user_id]]_vars

\* A schedule_appointment has ended with ConflictError on an occupied slot
\* while another slot is free: the free slot was not claimed in its place,
\* and no bill for a slot was recorded.
C32_Witness ==
    \E p \in Clients :
        /\ call[p].op = "schedule_appointment" /\ call[p].pc = "done"
        /\ call[p].res.kind = "ConflictError"
        /\ Occupant(db.slots, call[p].slot_id) \notin {NULL, -1}
        /\ \E s \in DOMAIN db.slots : db.slots[s].user_id = NULL
        /\ \A b \in DOMAIN db.bills : db.bills[b].slot_id = NULL

\* ---------------------------------------------------------------- C33
\* The transports that serve HTTP.
HttpTransports == {"sse", "streamable-http"}

\* C33: with JWT_REQUIRED unset, ServerSettings.load makes authentication
\* not required for the stdio transport and required for the HTTP transports
\* (sse and streamable-http); when JWT_REQUIRED is set, its value decides,
\* whatever the transport.
C33_TransportDefault ==
    /\ \A env \in Environments :
        env.JWT_REQUIRED = None => ~load("stdio", env).jwt_required
    /\ server.pc # "down" =>
        LET settings == server.app.settings
            v == server.env.JWT_REQUIRED
        IN  IF v = None
            THEN settings.jwt_required = (settings.transport \in HttpTransports)
            ELSE settings.jwt_required = (StripLower(v) \in {"1", "true", "yes", "y", "on"})

\* ---------------------------------------------------------------- C34
Initialises(p) ==
    /\ call[p].repo = "init_schema" /\ call[p].pc = "exec"
    /\ call'[p].pc = "done"

\* The slots with their occupants left out.
Unoccupied(slots) == [i \in DOMAIN slots |-> [slots[i] EXCEPT !.user_id = NULL]]

\* C34: init_schema is idempotent: the first call on a new database seeds
\* the doctors and the slots; every later call leaves the store exactly as
\* it is, so that the doctors and slots are the seeded ones, never
\* duplicated, and users, bookings, payment methods and bills are untouched.
C34_InitIdempotent ==
    [][/\ \A p \in Clients :
            Initialises(p) =>
                IF db = EmptyDb
                THEN db' = [EmptyDb EXCEPT !.doctors = SeedDoctors, !.slots = SeedSlots]
                ELSE db' = db
       /\ db' # EmptyDb => db'.doctors = SeedDoctors /\ Unoccupied(db'.slots) = SeedSlots]_vars

\* The client that registered a user and booked a slot has then called
\* init_schema, which has returned: the database holds the user, the payment
\* method, the bill and the booking, besides the seeded doctors and slots.
C34_Witness ==
    \E p \in {"c1"} :
        /\ call[p].op = "init_schema" /\ call[p].pc = "done"
        /\ db.users # <<>> /\ db.payment_methods # <<>> /\ db.bills # <<>>
        /\ \E s \in DOMAIN db.slots : db.slots[s].user_id # NULL
        /\ db.doctors = SeedDoctors

\* ---------------------------------------------------------------- C35
\* A step of client p's ClaimSlot (add_appointment) or ReleaseSlot
\* (remove_appointment).
ClaimOrReleaseStep(p) ==
    /\ Moves(p)
    /\ call[p].repo \in {"add_appointment", "remove_appointment"}
    /\ call[p].pc \in {"exec", "commit", "close"}

\* C35: ClaimSlot(s, u), whether it succeeds or fails, and ReleaseSlot(s)
\* leave every slot other than s unchanged, create and delete no slot,
\* change no attribute of s but its occupant, and change no doctor, user,
\* payment method or bill.
C35_Frame ==
    [][\A p \in Clients :
        ClaimOrReleaseStep(p) =>
            /\ DOMAIN db'.slots = DOMAIN db.slots
            /\ \A i \in DOMAIN db.slots :
                /\ i # call[p].slot_id => db'.slots[i] = db.slots[i]
                /\ [db'.slots[i] EXCEPT !.user_id = NULL] = [db.slots[i] EXCEPT !.user_id = NULL]
            /\ db'.users = db.users
            /\ db'.payment_methods = db.payment_methods
            /\ db'.bills = db.bills
            /\ db'.doctors = db.doctors]_vars

\* A ReleaseSlot of a slot id that does not exist and a ClaimSlot that
\* failed with ConflictError have both ended, and another slot is occupied
\* still.
C35_Witness ==
    \E p, q \in Clients :
        /\ call[p].op = "remove_appointment" /\ call[p].pc = "done"
        /\ call[p].slot_id \notin DOMAIN db.slots
        /\ call[q].op = "add_appointment" /\ call[q].pc = "done"
        /\ call[q].res.kind = "ConflictError"
        /\ \E s \in DOMAIN db.slots : s # call[q].slot_id /\ db.slots[s].user_id # NULL

\* ---------------------------------------------------------------- C36
\* Every reference in database d is to a record that exists.
ReferentialIntegrity(d) ==
    /\ \A s \in DOMAIN d.slots :
        d.slots[s].user_id # NULL => d.slots[s].user_id \in DOMAIN d.users
    /\ \A m \in DOMAIN d.payment_methods :
        d.payment_methods[m].user_id \in DOMAIN d.users
    /\ \A b \in DOMAIN d.bills :
        /\ d.bills[b].pay_id \in DOMAIN d.payment_methods
        /\ d.bills[b].slot_id # NULL => d.bills[b].slot_id \in DOMAIN d.slots

\* The statement client p is about to execute would write a reference to a
\* record that does not exist.
WouldBreak(p) ==
    /\ call[p].pc = "exec"
    /\ \/ /\ call[p].repo = "add_appointment"
          /\ Occupant(db.slots, call[p].slot_id) = NULL
          /\ call[p].user_id \notin DOMAIN db.users
       \/ /\ call[p].repo = "add_payment_method"
          /\ call[p].user_id \notin DOMAIN db.users
       \/ /\ call[p].repo = "bill_user"
          /\ call[p].pay_id \notin DOMAIN db.payment_methods

\* C36: referential integrity holds in every reachable state, and an
\* operation that would break it (ClaimSlot with an unknown user id on a free
\* slot, adding a payment method for an unknown user, billing an unknown
\* payment method) fails and leaves the store unchanged.
C36_ReferentialIntegrity ==
    /\ []ReferentialIntegrity(db)
    /\ [][\A p \in Clients :
            /\ Moves(p) /\ WouldBreak(p)
                => call'[p].pc = "close" /\ call'[p].res.kind = "IntegrityError" /\ db' = db
            /\ Moves(p) /\ call[p].pc = "close"
                => call'[p].pc = "done" /\ call'[p].res.kind = "IntegrityError" /\ db' = db]_vars

\* A payment method for a user that does not exist has been refused, while
\* the database holds a user, a payment method, a bill for a slot and the
\* booking.
C36_Witness ==
    \E p \in Clients :
        /\ call[p].op = "add_payment_method" /\ call[p].pc = "done"
        /\ call[p].res.kind = "IntegrityError"
        /\ call[p].user_id \notin DOMAIN db.users
        /\ \E b \in DOMAIN db.bills :
            /\ db.bills[b].slot_id # NULL
            /\ db.slots[db.bills[b].slot_id].user_id # NULL

\* ---------------------------------------------------------------- C37
\* The bills that reference slot s.
BillsOf(bills, s) == {b \in DOMAIN bills : bills[b].slot_id = s}

\* The number of successful claims of slot s so far, where no slot is ever
\* released: one when the slot is occupied, none when it is not.
SuccessfulClaims(s) == IF db.slots[s].user_id # NULL THEN 1 ELSE 0

\* The step records a bill, and it is the bill of a schedule_appointment
\* invocation whose own claim of the bill's slot has succeeded; with it the
\* invocation ends.
BilledByClaimant ==
    Len(db'.bills) > Len(db.bills) =>
        /\ Len(db'.bills) = Len(db.bills) + 1
        /\ \E p \in Clients :
            /\ Scheduling(p) /\ call[p].repo = "bill_user" /\ call[p].pc = "commit"
            /\ call[p].rowcount = 1
            /\ call[p].booked = call[p].slot_id
            /\ db'.bills[Len(db'.bills)].slot_id = call[p].booked
            /\ call'[p].pc = "done"

\* C37: under any interleaving of concurrent schedule_appointment calls the
\* number of bills that reference a slot never exceeds the number of
\* successful claims of that slot: when callers race for a free slot and no
\* release occurs, at most one bill references it, and every bill is
\* recorded by the one invocation whose claim succeeded.
C37_BillsWithinClaims ==
    /\ [](\A s \in DOMAIN db.slots :
            Cardinality(BillsOf(db.bills, s)) <= SuccessfulClaims(s))
    /\ [][BilledByClaimant]_vars

\* Two schedule_appointment calls for the same slot have both ended, one with
\* the slot and one with ConflictError, and one bill references the slot.
C37_Witness ==
    \E p, q \in Clients :
        /\ p # q
        /\ Scheduling(p) /\ call[p].pc = "done" /\ call[p].res = Ok(call[p].slot_id)
        /\ Scheduling(q) /\ call[q].pc = "done" /\ call[q].res.kind = "ConflictError"
        /\ call[q].slot_id = call[p].slot_id
        /\ Cardinality(BillsOf(db.bills, call[p].slot_id)) = 1

\* ---------------------------------------------------------------- C38
\* C38: every bill that references a slot is charged to a payment method
\* owned by the user who claimed that slot: schedule_appointment(userId,
\* payId, slotId, amount) records its bill only when payId is a payment
\* method of userId.  Stated where no slot is released, so that the user who
\* claimed the slot is its occupant.
C38_ChargedToClaimant ==
    \A b \in DOMAIN db.bills :
        db.bills[b].slot_id # NULL =>
            /\ db.bills[b].pay_id \in DOMAIN db.payment_methods
            /\ db.payment_methods[db.bills[b].pay_id].user_id
                   = Occupant(db.slots, db.bills[b].slot_id)

\* ---------------------------------------------------------------- C39
\* The bearer token of the request.
BearerToken(g) == strip(get(g.scope.headers, "authorization").rest)

\* The token is signed with the gate's secret over an HS256 header, carries
\* an expiry and no not-before claim, and names the audience and the issuer
\* the gate expects.
TokenInOrder(g) ==
    LET t == BearerToken(g) IN
    /\ Len(t) = 3
    /\ t[1].form = "object" /\ t[1].alg = "HS256"
    /\ t[2].form = "object"
    /\ t[3] = _sign(g.mw.jwt.secret, t[1], t[2])
    /\ Len(t[2].exp) = 1 /\ t[2].nbf = <<>>
    /\ g.mw.jwt.audience # None => t[2].aud = <<g.mw.jwt.audience>>
    /\ g.mw.jwt.issuer # None => t[2].iss = <<g.mw.jwt.issuer>>

\* C39: the request gate verifies tokens with a fixed leeway of 30 seconds:
\* a request to a protected path that carries a correctly signed token is
\* forwarded when now <= expiry + 30 and is answered with the 401 response
\* when now > expiry + 30.
C39_FixedLeeway ==
    /\ gate.pc = "done" /\ Protected(gate) /\ HasBearer(gate.scope)
    /\ TokenInOrder(gate)
    => IF gate.now <= BearerToken(gate)[2].exp[1].v + 30
       THEN gate.out = Forwarded(gate.scope)
       ELSE gate.out = Unauthorized("{\"error\":\"invalid token\"}")

====
